---- MODULE Spec2Model ----
(***************************************************************************)
(* Model of the voice-to-text pipeline of src/voiceai-go/main.go:          *)
(* the recording session controller (toggleRecording / startRecording),    *)
(* the strategy dispatcher (processAudioAdvanced / processLargeAudio) and  *)
(* the parallel transcription engine (transcribeSegmentsParallel).         *)
(*                                                                         *)
(* Strings are sequences of one-character strings, so that                 *)
(* strings.TrimSpace and strings.Join are computed, not assumed.           *)
(***************************************************************************)
EXTENDS Integers, Sequences, FiniteSets, TLC

\* ------------------------------------------------------------------ bounds
\* largest number of segment files the segmenter produces in the model
MaxSegs == 3
\* largest configured MaxWorkers in the model
MaxWorkersBound == 2
\* largest number of recordings started in one run of the controller
MaxCycles == 2
\* largest number of segment files in a run of the whole pipeline
MaxPipelineSegs == 2
\* largest size of the framed recording, in MB
MaxAudioSizeMB == 5

\* ------------------------------------------------------------ configuration
PrimaryModel == "gemini-2.5-flash"
FallbackModel == "gemini-2.0-flash-exp"
\* Config.MaxSegmentSizeMB, the direct-size threshold
MaxSegmentSizeMB == 2
\* Config.MaxWorkers when MAX_WORKERS is not set
DefaultMaxWorkers == 3
\* ARECORD_RATE and ARECORD_CHANNELS when the environment does not set them
DefaultRate == 16000
DefaultChannels == 1
\* the instances of the program that may be started
MaxInstances == 2
\* largest number of payload bytes the model spells out
MaxPayload == 2
\* largest number of segment files sox writes in the model of the segmenter
MaxSegmentFiles == 1000
Instances == 1 .. MaxInstances

\* ------------------------------------------------------------------ strings
WhiteSpace == {" ", "\n", "\t"}

RECURSIVE TrimLeft(_)
TrimLeft(s) ==
    IF s # <<>> /\ Head(s) \in WhiteSpace THEN TrimLeft(Tail(s)) ELSE s

RECURSIVE TrimRight(_)
TrimRight(s) ==
    IF s # <<>> /\ s[Len(s)] \in WhiteSpace
    THEN TrimRight(SubSeq(s, 1, Len(s) - 1))
    ELSE s

\* strings.TrimSpace
TrimSpace(s) == TrimRight(TrimLeft(s))

\* strings.Join(parts, sep)
RECURSIVE Join(_, _)
Join(parts, sep) ==
    IF parts = <<>> THEN <<>>
    ELSE IF Len(parts) = 1 THEN parts[1]
    ELSE parts[1] \o sep \o Join(Tail(parts), sep)

\* ------------------------------------------------- the remote model's answers
\* What the remote model hears in segment idx: one word per segment and model,
\* so that every unit's text is recognisable in the transcript.
PrimaryWords == <<"a", "b", "c", "d", "e", "f">>
FallbackWords == <<"A", "B", "C", "D", "E", "F">>

Words(idx, m) ==
    IF m = PrimaryModel THEN <<PrimaryWords[idx + 1]>> ELSE <<FallbackWords[idx + 1]>>

\* The answers GenerateContent can give for segment idx sent to model m:
\* a transport / status error (429 included), an answer without text, an
\* answer of white space only, and the words padded with white space.
ApiResponses(idx, m) ==
    { [fail |-> TRUE,  text |-> <<>>],
      [fail |-> FALSE, text |-> <<>>],
      [fail |-> FALSE, text |-> <<" ", "\n">>],
      [fail |-> FALSE, text |-> <<" ">> \o Words(idx, m) \o <<"\n">>] }

\* transcribeSegmentFile, after the request has returned resp. An error value is
\* only ever compared with nil by its callers: err is "nil" or "error".
transcribeSegmentFile(resp) ==
    IF resp.fail THEN [text |-> <<>>, err |-> "error"]
    ELSE IF resp.text = <<>> THEN [text |-> <<>>, err |-> "error"]
    ELSE [text |-> TrimSpace(resp.text), err |-> "nil"]

\* --------------------------------------------------------------------- state
VARIABLES
    nsegs,            \* len(segments)
    maxWorkers,       \* app.config.MaxWorkers
    wpc,              \* position of each segment goroutine
    model,            \* the goroutine's local `model`
    text,             \* the goroutine's local `text`
    err,              \* the goroutine's local `err`
    calls,            \* per unit: the models transcribeSegmentFile was called with
    firstOK,          \* per unit: whether its first call gave usable text
    semaphore,        \* number of tokens in the semaphore channel
    wg,               \* the WaitGroup counter
    resultChan,       \* the buffered result channel
    chanClosed,       \* close(resultChan) has run
    reordered,        \* the collector has received an index after a larger one
    received,         \* how often the collector has received each index
    results,          \* map[int]string
    transcriptParts,  \* []string
    epc,              \* position of transcribeSegmentsParallel itself
    combined,         \* its return value
    isRecording,      \* recordingState.isRecording
    isProcessing,     \* recordingState.isProcessing
    arecordCmd,       \* recordingState.arecordCmd: 0 is nil, c the c-th capture process
    mpc,              \* position of the signal loop of main / toggleRecording
    capture,          \* state of each arecord subprocess
    gpc,              \* position of each pipeline goroutine
    cycles,           \* number of capture processes started so far
    readErr,          \* each goroutine's `err` of io.ReadAll(stdout)
    ppc,              \* position of the pipeline goroutine after the read
    audioSizeMB,      \* float64(len(wavData)) / (1024 * 1024)
    audioTempFile,    \* the file at config.AudioTempFile
    speedFile,        \* tempFile + "_speed.wav" exists
    segmentsDir,      \* the directory made by os.MkdirTemp exists
    processFile,      \* the file handed to the segmenter
    transcript,       \* the pipeline's transcript
    directCalls,      \* the models transcribeAudio has called
    directErr,        \* the error of the last transcribeAudio
    clipboardCalls,   \* number of copyToClipboard invocations
    saved,            \* outcome of saveAudioForDebugging
    strategy,         \* the branch processAudioAdvanced took
    speedTried,       \* outcome of speedUpAudio, "no" while it was not called
    splitInput,       \* the file splitAudioBySilence was called with
    directInput,      \* the bytes the last transcribeAudio was called with
    clipboardOK,      \* what the last copyToClipboard returned
    aRecordRate,      \* config.ARecordRate, the -r argument of arecord
    aRecordChannels,  \* config.ARecordChannels, the -c argument of arecord
    rawData,          \* the argument of createWAVData
    rawGiven,         \* the bytes of that argument when the call was made
    wavData,          \* the value createWAVData returned
    fpc,              \* position of the framing step
    ipc,              \* position of main in each instance of the program
    pidFile,          \* the instance whose pid is in config.PIDFile, 0: no file
    yadCmd,           \* app.yadCmd of each instance: nil, or the state of yad
    session,          \* the session state of each instance
    arecord,          \* the capture process of each instance
    debugFile,        \* a file is at config.AudioTempFile
    nfiles,           \* number of segment files sox has written
    listing,          \* the files of the segments directory, sorted by name
    segments,         \* the list splitAudioBySilence returned
    spc,              \* position of splitAudioBySilence
    rpc,              \* position of each large-mode run in processLargeAudio
    runDir,           \* each run's local segmentsDir, 0 before os.MkdirTemp
    tmpDirs,          \* the segment directories that exist under os.TempDir()
    tmpFiles,         \* the segment files in them, each with the run that wrote it
    created,          \* per run: the files its sox process wrote
    handed,           \* per run: the files of the list handed to the engine
    xpc,              \* main-rest.go: position of processLargeAudio
    restDir,          \* main-rest.go: /tmp/voice_ai_segments exists
    restFiles,        \* main-rest.go: the numbers of the segment files in it
    restSegments,     \* main-rest.go: the list splitAudioBySilence returned
    restTranscript,   \* main-rest.go: what processLargeAudio returned
    hpc,              \* part_000: position of toggleRecording; it holds app.mu off "loop"
    muIsRecording,    \* part_000: app.isRecording
    muIsProcessing,   \* part_000: app.isProcessing
    muArecordCmd,     \* part_000: app.arecordCmd, 0 is nil, c the c-th exec.Cmd
    cmd,              \* part_000: the state of each exec.Cmd and of its process
    rgpc,             \* part_000: position of each recording goroutine
    pipeOf,           \* part_000: the Cmd whose stdout pipe the goroutine holds
    outcome           \* the outcome of the call for each (segment, model)

engVars == <<nsegs, maxWorkers, wpc, model, text, err, calls, firstOK, semaphore, wg,
             resultChan, chanClosed, reordered, received, results, transcriptParts, epc,
             combined>>

ctlVars == <<isRecording, isProcessing, arecordCmd, mpc, capture, gpc, cycles, readErr>>

pipeVars == <<ppc, audioSizeMB, audioTempFile, speedFile, segmentsDir, processFile,
              transcript, directCalls, directErr, clipboardCalls, saved,
              strategy, speedTried, splitInput, directInput, clipboardOK>>

wavVars == <<aRecordRate, aRecordChannels, rawData, rawGiven, wavData, fpc>>

procVars == <<ipc, pidFile, yadCmd, session, arecord, debugFile>>

globVars == <<nfiles, listing, segments, spc>>

stageVars == <<rpc, runDir, tmpDirs, tmpFiles, created, handed>>

restVars == <<xpc, restDir, restFiles, restSegments, restTranscript>>

mutexVars == <<hpc, muIsRecording, muIsProcessing, muArecordCmd, cmd, rgpc, pipeOf>>

variantVars == <<outcome>>

extraVars == <<stageVars, restVars, mutexVars, variantVars>>

otherVars == <<wavVars, procVars, globVars, extraVars>>

vars == <<engVars, ctlVars, pipeVars, otherVars>>

Units == 0 .. (nsegs - 1)

\* ------------------------------------------------- transcribeSegmentsParallel
semaphoreCapOneMore == maxWorkers + 1

\* capacity of the semaphore channel
semaphoreCap == maxWorkers

resultChanCapOneLess == nsegs - 1

\* capacity of the result channel
resultChanCap == nsegs

FirstModelAlwaysPrimary(idx) == PrimaryModel

\* the model a unit tries first
FirstModel(idx) == IF idx % 2 = 0 THEN PrimaryModel ELSE FallbackModel

\* err == nil && text != ""
Usable(r) == r.err = "nil" /\ r.text # <<>>

\* the condition under which the goroutine makes its second call
RetryWanted(idx, r) ==
    /\ ~Usable(r)
    /\ model[idx] = PrimaryModel

RetryModelSame(idx) == model[idx]

\* the model of the second call
RetryModel(idx) == FallbackModel

CallsAfterFirstTryingBoth(idx, r) ==
    IF Usable(r) THEN calls[idx] ELSE calls[idx] \o <<FallbackModel, PrimaryModel>>

\* the calls of a unit once its first call has returned r: the retry with
\* FallbackModel is its second and last call
CallsAfterFirst(idx, r) ==
    IF RetryWanted(idx, r) THEN Append(calls[idx], RetryModel(idx)) ELSE calls[idx]

WaitSkipped == TRUE

\* wg.Wait() returns
WaitReturns == wg = 0

\* the state right after the spawning loop
EngineStart(n) ==
    /\ nsegs = n
    /\ wpc = [i \in 0 .. (n - 1) |-> "acquire"]
    /\ model = [i \in 0 .. (n - 1) |-> ""]
    /\ text = [i \in 0 .. (n - 1) |-> <<>>]
    /\ err = [i \in 0 .. (n - 1) |-> "nil"]
    /\ calls = [i \in 0 .. (n - 1) |-> <<>>]
    /\ firstOK = [i \in 0 .. (n - 1) |-> "pending"]
    /\ semaphore = 0
    /\ wg = n
    /\ resultChan = <<>>
    /\ chanClosed = FALSE
    /\ reordered = FALSE
    /\ received = [i \in 0 .. (n - 1) |-> 0]
    /\ results = <<>>
    /\ transcriptParts = <<>>
    /\ epc = "collect"
    /\ combined = <<>>

\* semaphore <- struct{}{}, model selection and the start of the first call
Acquire(i) ==
    /\ wpc[i] = "acquire"
    /\ semaphore < semaphoreCap
    /\ semaphore' = semaphore + 1
    /\ model' = [model EXCEPT ![i] = FirstModel(i)]
    /\ calls' = [calls EXCEPT ![i] = <<FirstModel(i)>>]
    /\ wpc' = [wpc EXCEPT ![i] = "call1"]
    /\ UNCHANGED <<nsegs, maxWorkers, text, err, firstOK, wg, resultChan, chanClosed,
                   reordered, received, results, transcriptParts, epc, combined>>

\* the first call returns; the goroutine decides whether to call again
Return1(i) ==
    /\ wpc[i] = "call1"
    /\ \E resp \in ApiResponses(i, model[i]) :
         LET r == transcribeSegmentFile(resp) IN
         /\ text' = [text EXCEPT ![i] = r.text]
         /\ err' = [err EXCEPT ![i] = r.err]
         /\ firstOK' = [firstOK EXCEPT ![i] = IF Usable(r) THEN "yes" ELSE "no"]
         /\ calls' = [calls EXCEPT ![i] = CallsAfterFirst(i, r)]
         /\ wpc' = [wpc EXCEPT ![i] = IF RetryWanted(i, r) THEN "call2" ELSE "send"]
    /\ UNCHANGED <<nsegs, maxWorkers, model, semaphore, wg, resultChan, chanClosed,
                   reordered, received, results, transcriptParts, epc, combined>>

\* the second call returns
Return2(i) ==
    /\ wpc[i] = "call2"
    /\ \E resp \in ApiResponses(i, calls[i][2]) :
         LET r == transcribeSegmentFile(resp) IN
         /\ text' = [text EXCEPT ![i] = r.text]
         /\ err' = [err EXCEPT ![i] = r.err]
    /\ wpc' = [wpc EXCEPT ![i] = "send"]
    /\ UNCHANGED <<nsegs, maxWorkers, model, calls, firstOK, semaphore, wg, resultChan,
                   chanClosed, reordered, received, results, transcriptParts, epc, combined>>

\* resultChan <- segmentResult{index, text, err}
Send(i) ==
    /\ wpc[i] = "send"
    /\ ~chanClosed
    /\ Len(resultChan) < resultChanCap
    /\ resultChan' = Append(resultChan, [index |-> i, text |-> text[i], err |-> err[i]])
    /\ wpc' = [wpc EXCEPT ![i] = "release"]
    /\ UNCHANGED <<nsegs, maxWorkers, model, text, err, calls, firstOK, semaphore, wg,
                   chanClosed, reordered, received, results, transcriptParts, epc, combined>>

SemaphoreLeakedOnFailure(i) == IF err[i] = "nil" THEN semaphore - 1 ELSE semaphore

\* the semaphore after the deferred <-semaphore of unit i
SemaphoreReleased(i) == semaphore - 1

\* deferred: <-semaphore
Release(i) ==
    /\ wpc[i] = "release"
    /\ semaphore > 0
    /\ semaphore' = SemaphoreReleased(i)
    /\ wpc' = [wpc EXCEPT ![i] = "wgdone"]
    /\ UNCHANGED <<nsegs, maxWorkers, model, text, err, calls, firstOK, wg, resultChan,
                   chanClosed, reordered, received, results, transcriptParts, epc, combined>>

\* deferred: wg.Done()
WgDone(i) ==
    /\ wpc[i] = "wgdone"
    /\ wg' = wg - 1
    /\ wpc' = [wpc EXCEPT ![i] = "done"]
    /\ UNCHANGED <<nsegs, maxWorkers, model, text, err, calls, firstOK, semaphore,
                   resultChan, chanClosed, reordered, received, results, transcriptParts, epc,
                   combined>>

\* go func() { wg.Wait(); close(resultChan) }()
CloseResults ==
    /\ epc \notin {"spawn", "panic"}
    /\ ~chanClosed
    /\ WaitReturns
    /\ chanClosed' = TRUE
    /\ UNCHANGED <<nsegs, maxWorkers, wpc, model, text, err, calls, firstOK, semaphore, wg,
                   resultChan, reordered, received, results, transcriptParts, epc, combined>>

CollectedAlsoUnderNextIndex(result) ==
    IF result.err = "nil" /\ result.text # <<>>
    THEN [k \in DOMAIN results \cup {result.index, (result.index + 1) % nsegs} |->
             IF k \in {result.index, (result.index + 1) % nsegs}
             THEN result.text ELSE results[k]]
    ELSE results

CollectedWithoutTextCheck(result) ==
    IF result.err = "nil"
    THEN [k \in DOMAIN results \cup {result.index} |->
             IF k = result.index THEN result.text ELSE results[k]]
    ELSE results

\* the results map after the collector has handled result
Collected(result) ==
    IF result.err = "nil" /\ result.text # <<>>
    THEN [k \in DOMAIN results \cup {result.index} |->
             IF k = result.index THEN result.text ELSE results[k]]
    ELSE results

\* the units whose outcome the collector has already taken from the channel
Delivered ==
    {j \in Units : wpc[j] \in {"release", "wgdone", "done"}
                    /\ \A k \in 1 .. Len(resultChan) : resultChan[k].index # j}

\* one iteration of `for result := range resultChan`
Collect ==
    /\ epc = "collect"
    /\ resultChan # <<>>
    /\ results' = Collected(Head(resultChan))
    /\ reordered' = (reordered \/ \E j \in Delivered : j > Head(resultChan).index)
    /\ received' = [received EXCEPT ![Head(resultChan).index] = @ + 1]
    /\ resultChan' = Tail(resultChan)
    /\ UNCHANGED <<nsegs, maxWorkers, wpc, model, text, err, calls, firstOK, semaphore, wg,
                   chanClosed, transcriptParts, epc, combined>>

\* the loop `for i := 0; i < len(segments); i++` over the results map
RECURSIVE CombineFrom(_, _, _)
CombineFrom(i, n, res) ==
    IF i >= n THEN <<>>
    ELSE (IF i \in DOMAIN res THEN <<res[i]>> ELSE <<>>) \o CombineFrom(i + 1, n, res)

RECURSIVE CombineDownFrom(_, _)
CombineDownFrom(i, res) ==
    IF i < 0 THEN <<>>
    ELSE (IF i \in DOMAIN res THEN <<res[i]>> ELSE <<>>) \o CombineDownFrom(i - 1, res)

CombineDescending(n, res) == CombineDownFrom(n - 1, res)

CombineInOrder(n, res) == CombineFrom(0, n, res)

\* the range loop ends on the closed, drained channel; reassembly and return
Combine ==
    /\ epc = "collect"
    /\ resultChan = <<>>
    /\ chanClosed
    /\ transcriptParts' = CombineInOrder(nsegs, results)
    /\ combined' = IF Len(transcriptParts') > 0 THEN Join(transcriptParts', <<" ">>) ELSE <<>>
    /\ epc' = "done"
    /\ UNCHANGED <<nsegs, maxWorkers, wpc, model, text, err, calls, firstOK, semaphore, wg,
                   resultChan, chanClosed, reordered, received, results>>

WorkerStep(i) ==
    \/ Acquire(i)
    \/ Return1(i)
    \/ Return2(i)
    \/ Send(i)
    \/ Release(i)
    \/ WgDone(i)

\* ------------------------------------------ toggleRecording / startRecording
Cycles == 1 .. MaxCycles

\* the state of recordingState and of the signal loop when main enters it
ControllerIdle ==
    /\ isRecording = FALSE
    /\ isProcessing = FALSE
    /\ arecordCmd = 0
    /\ mpc = "loop"
    /\ capture = [c \in Cycles |-> "none"]
    /\ gpc = [c \in Cycles |-> "none"]
    /\ readErr = [c \in Cycles |-> "nil"]
    /\ cycles = 0

\* no engine is running
EngineIdle ==
    /\ nsegs = 0
    /\ wpc = <<>>
    /\ model = <<>>
    /\ text = <<>>
    /\ err = <<>>
    /\ calls = <<>>
    /\ firstOK = <<>>
    /\ semaphore = 0
    /\ wg = 0
    /\ resultChan = <<>>
    /\ chanClosed = FALSE
    /\ reordered = FALSE
    /\ received = <<>>
    /\ results = <<>>
    /\ transcriptParts = <<>>
    /\ epc = "none"
    /\ combined = <<>>

\* no pipeline is running
PipelineIdle ==
    /\ ppc = "none"
    /\ audioSizeMB = 0
    /\ audioTempFile = "absent"
    /\ speedFile = FALSE
    /\ segmentsDir = FALSE
    /\ processFile = "none"
    /\ transcript = <<>>
    /\ directCalls = <<>>
    /\ directErr = "nil"
    /\ clipboardCalls = 0
    /\ saved = "none"
    /\ strategy = "none"
    /\ speedTried = "no"
    /\ splitInput = "none"
    /\ directInput = "none"
    /\ clipboardOK = FALSE

\* nothing is being framed
WavIdle ==
    /\ aRecordRate = DefaultRate
    /\ aRecordChannels = DefaultChannels
    /\ rawData = [head |-> <<>>, more |-> [hi |-> 0, lo |-> 0]]
    /\ rawGiven = rawData
    /\ wavData = [head |-> <<>>, more |-> [hi |-> 0, lo |-> 0]]
    /\ fpc = "none"

\* no instance of the program has been started
ProcIdle ==
    /\ ipc = [i \in Instances |-> "off"]
    /\ pidFile = 0
    /\ yadCmd = [i \in Instances |-> "nil"]
    /\ session = [i \in Instances |-> "Idle"]
    /\ arecord = [i \in Instances |-> "none"]
    /\ debugFile = FALSE

\* no segmenter is running
GlobIdle ==
    /\ nfiles = 0
    /\ listing = <<>>
    /\ segments = <<>>
    /\ spc = "none"

\* largest number of large-mode runs that share the temp directory
MaxRuns == 2
\* number of directory names os.MkdirTemp can come up with
MaxDirNames == 3
\* largest number of segment files of one run in the staging model
MaxStageFiles == 2

Runs == 1 .. MaxRuns

\* no large-mode run has started and no segment directory is left over
StageIdle ==
    /\ rpc = [r \in Runs |-> "idle"]
    /\ runDir = [r \in Runs |-> 0]
    /\ tmpDirs = {}
    /\ tmpFiles = {}
    /\ created = [r \in Runs |-> {}]
    /\ handed = [r \in Runs |-> {}]

\* main-rest.go: no processLargeAudio is running
RestIdle ==
    /\ xpc = "none"
    /\ restDir = FALSE
    /\ restFiles = {}
    /\ restSegments = <<>>
    /\ restTranscript = <<>>

\* part_000: the state of AppState when the signal loop starts
MutexIdle ==
    /\ hpc = "loop"
    /\ muIsRecording = FALSE
    /\ muIsProcessing = FALSE
    /\ muArecordCmd = 0
    /\ cmd = [c \in Cycles |-> "none"]
    /\ rgpc = [c \in Cycles |-> "none"]
    /\ pipeOf = [c \in Cycles |-> 0]

\* no outcome has been fixed
VariantIdle == outcome = <<>>

ExtrasIdle == StageIdle /\ RestIdle /\ MutexIdle /\ VariantIdle

OthersIdle == WavIdle /\ ProcIdle /\ GlobIdle /\ ExtrasIdle

IgnoresBusy == FALSE

\* the test `if recordingState.isProcessing` of the start branch
Busy == isProcessing

\* SIGUSR1 is taken from sigChan; toggleRecording tests recordingState.isRecording
Toggle ==
    /\ mpc = "loop"
    /\ mpc' = IF isRecording THEN "signal" ELSE "check"
    /\ UNCHANGED <<isRecording, isProcessing, arecordCmd, capture, gpc, cycles, readErr>>

\* arecordCmd.Process.Signal(SIGTERM), when there is a process
StopSignal ==
    /\ mpc = "signal"
    /\ capture' = IF arecordCmd # 0 /\ capture[arecordCmd] = "running"
                  THEN [capture EXCEPT ![arecordCmd] = "stopping"]
                  ELSE capture
    /\ mpc' = "clear"
    /\ UNCHANGED <<isRecording, isProcessing, arecordCmd, gpc, cycles, readErr>>

SignalWaitsForExit == arecordCmd # 0 => capture[arecordCmd] = "exited"

\* Process.Signal returns once the signal is sent, whatever the process does
SignalReturns == TRUE

\* recordingState.isRecording = false
StopClearRecording ==
    /\ mpc = "clear"
    /\ SignalReturns
    /\ isRecording' = FALSE
    /\ mpc' = "set"
    /\ UNCHANGED <<isProcessing, arecordCmd, capture, gpc, cycles, readErr>>

\* recordingState.isProcessing = true; updateTrayIcon; return
StopSetProcessing ==
    /\ mpc = "set"
    /\ isProcessing' = TRUE
    /\ mpc' = "loop"
    /\ UNCHANGED <<isRecording, arecordCmd, capture, gpc, cycles, readErr>>

\* the start branch: ignore the toggle while processing, else startRecording
CheckProcessing ==
    /\ mpc = "check"
    /\ mpc' = IF Busy THEN "loop" ELSE "start"
    /\ UNCHANGED <<isRecording, isProcessing, arecordCmd, capture, gpc, cycles, readErr>>

\* startRecording: the capture process is started, the state is set and the
\* pipeline goroutine is spawned; or the capture process fails to start
startRecording ==
    /\ mpc = "start"
    /\ \E started \in {b \in BOOLEAN : b => cycles < MaxCycles} :
         IF started
         THEN /\ cycles' = cycles + 1
              /\ capture' = [capture EXCEPT ![cycles + 1] = "running"]
              /\ arecordCmd' = cycles + 1
              /\ isRecording' = TRUE
              /\ gpc' = [gpc EXCEPT ![cycles + 1] = "read"]
              /\ UNCHANGED <<isProcessing, readErr>>
         ELSE UNCHANGED <<isRecording, isProcessing, arecordCmd, capture, gpc, cycles, readErr>>
    /\ mpc' = "loop"

\* arecord exits after SIGTERM
CaptureStops(c) ==
    /\ capture[c] = "stopping"
    /\ capture' = [capture EXCEPT ![c] = "exited"]
    /\ UNCHANGED <<isRecording, isProcessing, arecordCmd, mpc, gpc, cycles, readErr>>

\* arecord exits without having been signalled (device error, killed)
CaptureEndsOnItsOwn(c) ==
    /\ capture[c] = "running"
    /\ capture' = [capture EXCEPT ![c] = "exited"]
    /\ UNCHANGED <<isRecording, isProcessing, arecordCmd, mpc, gpc, cycles, readErr>>

\* io.ReadAll(stdout) returns the audio at the end of the stream; cmd.Wait
ReadAudio(c) ==
    /\ gpc[c] = "read"
    /\ capture[c] = "exited"
    /\ gpc' = [gpc EXCEPT ![c] = "pipeline"]
    /\ UNCHANGED <<isRecording, isProcessing, arecordCmd, mpc, capture, cycles, readErr>>

\* io.ReadAll(stdout) returns an error; the goroutine returns
ReadError(c) ==
    /\ gpc[c] = "read"
    /\ readErr' = [readErr EXCEPT ![c] = "error"]
    /\ gpc' = [gpc EXCEPT ![c] = "defer"]
    /\ UNCHANGED <<isRecording, isProcessing, arecordCmd, mpc, capture, cycles>>

\* createWAVData, processAudioAdvanced and the publish / persist step, which
\* touch no state of the controller (their steps: SpecPipeline)
RunPipeline(c) ==
    /\ gpc[c] = "pipeline"
    /\ gpc' = [gpc EXCEPT ![c] = "defer"]
    /\ UNCHANGED <<isRecording, isProcessing, arecordCmd, mpc, capture, cycles, readErr>>

\* the deferred function: recordingState.isProcessing = false; updateTrayIcon
PipelineDeferred(c) ==
    /\ gpc[c] = "defer"
    /\ isProcessing' = FALSE
    /\ gpc' = [gpc EXCEPT ![c] = "done"]
    /\ UNCHANGED <<isRecording, arecordCmd, mpc, capture, cycles, readErr>>

InitController ==
    /\ OthersIdle
    /\ ControllerIdle
    /\ maxWorkers = DefaultMaxWorkers
    /\ EngineIdle
    /\ PipelineIdle

NextController ==
    \/ Toggle /\ UNCHANGED <<engVars, pipeVars, otherVars>>
    \/ StopSignal /\ UNCHANGED <<engVars, pipeVars, otherVars>>
    \/ StopClearRecording /\ UNCHANGED <<engVars, pipeVars, otherVars>>
    \/ StopSetProcessing /\ UNCHANGED <<engVars, pipeVars, otherVars>>
    \/ CheckProcessing /\ UNCHANGED <<engVars, pipeVars, otherVars>>
    \/ startRecording /\ UNCHANGED <<engVars, pipeVars, otherVars>>
    \/ (\E c \in Cycles : CaptureStops(c)) /\ UNCHANGED <<engVars, pipeVars, otherVars>>
    \/ (\E c \in Cycles : CaptureEndsOnItsOwn(c)) /\ UNCHANGED <<engVars, pipeVars, otherVars>>
    \/ (\E c \in Cycles : ReadAudio(c)) /\ UNCHANGED <<engVars, pipeVars, otherVars>>
    \/ (\E c \in Cycles : ReadError(c)) /\ UNCHANGED <<engVars, pipeVars, otherVars>>
    \/ (\E c \in Cycles : RunPipeline(c)) /\ UNCHANGED <<engVars, pipeVars, otherVars>>
    \/ (\E c \in Cycles : PipelineDeferred(c)) /\ UNCHANGED <<engVars, pipeVars, otherVars>>

SpecController == InitController /\ [][NextController]_vars

\* The signal loop and the goroutines are scheduled, a signalled capture
\* process exits and every external call returns. Nothing forces a toggle to
\* arrive, the capture to end on its own or a read to fail.
FairController ==
    /\ WF_vars(StopSignal /\ UNCHANGED <<engVars, pipeVars, otherVars>>)
    /\ WF_vars(StopClearRecording /\ UNCHANGED <<engVars, pipeVars, otherVars>>)
    /\ WF_vars(StopSetProcessing /\ UNCHANGED <<engVars, pipeVars, otherVars>>)
    /\ WF_vars(CheckProcessing /\ UNCHANGED <<engVars, pipeVars, otherVars>>)
    /\ WF_vars(startRecording /\ UNCHANGED <<engVars, pipeVars, otherVars>>)
    /\ \A c \in Cycles :
         /\ WF_vars(CaptureStops(c) /\ UNCHANGED <<engVars, pipeVars, otherVars>>)
         /\ WF_vars(ReadAudio(c) /\ UNCHANGED <<engVars, pipeVars, otherVars>>)
         /\ WF_vars(RunPipeline(c) /\ UNCHANGED <<engVars, pipeVars, otherVars>>)
         /\ WF_vars(PipelineDeferred(c) /\ UNCHANGED <<engVars, pipeVars, otherVars>>)

FairSpecController == InitController /\ [][NextController]_vars /\ FairController

\* Only the signal loop is scheduled: nothing is assumed of the capture
\* process or of the pipeline goroutines.
FairHandler ==
    /\ WF_vars(StopSignal /\ UNCHANGED <<engVars, pipeVars, otherVars>>)
    /\ WF_vars(StopClearRecording /\ UNCHANGED <<engVars, pipeVars, otherVars>>)
    /\ WF_vars(StopSetProcessing /\ UNCHANGED <<engVars, pipeVars, otherVars>>)
    /\ WF_vars(CheckProcessing /\ UNCHANGED <<engVars, pipeVars, otherVars>>)
    /\ WF_vars(startRecording /\ UNCHANGED <<engVars, pipeVars, otherVars>>)

FairSpecHandler == InitController /\ [][NextController]_vars /\ FairHandler

\* ---------------------------------- the pipeline goroutine after the read
\* The answers GenerateContent can give for the whole recording.
DirectResponses ==
    { [fail |-> TRUE,  text |-> <<>>],
      [fail |-> FALSE, text |-> <<>>],
      [fail |-> FALSE, text |-> <<" ", "\n">>],
      [fail |-> FALSE, text |-> <<" ", "w", "\n">>] }

\* transcribeAudio, after the request has returned resp: result.Text() as it is
transcribeAudio(resp) ==
    IF resp.fail THEN [text |-> <<>>, err |-> "error"]
    ELSE [text |-> resp.text, err |-> "nil"]

\* the session is Processing and the goroutine of the first recording has read
\* and framed the audio
ControllerProcessing ==
    /\ isRecording = FALSE
    /\ isProcessing = TRUE
    /\ arecordCmd = 1
    /\ mpc = "loop"
    /\ capture = [c \in Cycles |-> IF c = 1 THEN "exited" ELSE "none"]
    /\ gpc = [c \in Cycles |-> IF c = 1 THEN "pipeline" ELSE "none"]
    /\ readErr = [c \in Cycles |-> "nil"]
    /\ cycles = 1

DirectModeBelowOnly == audioSizeMB < MaxSegmentSizeMB

\* the test `if audioSizeMB <= app.config.MaxSegmentSizeMB`
DirectMode == audioSizeMB <= MaxSegmentSizeMB

\* processAudioAdvanced: the strategy by size
Dispatch ==
    /\ ppc = "dispatch"
    /\ strategy' = IF DirectMode THEN "direct" ELSE "large"
    /\ ppc' = IF DirectMode THEN "direct" ELSE "write"
    /\ UNCHANGED <<audioSizeMB, audioTempFile, speedFile, segmentsDir, processFile,
                   transcript, directCalls, directErr, clipboardCalls, saved,
                   speedTried, splitInput, directInput, clipboardOK>>

DirectInputProcessFile == IF processFile = "none" THEN "wavData" ELSE processFile

\* the argument of transcribeAudio: the framed recording
DirectInput == "wavData"

\* transcript, _ := app.transcribeAudio(wavData), on the direct path and on the
\* two fallbacks of processLargeAudio
DirectTranscribe ==
    /\ ppc \in {"direct", "largedirect"}
    /\ directInput' = DirectInput
    /\ \E resp \in DirectResponses :
         /\ transcript' = transcribeAudio(resp).text
         /\ directErr' = transcribeAudio(resp).err
    /\ directCalls' = Append(directCalls, PrimaryModel)
    /\ ppc' = IF ppc = "direct" THEN "publish" ELSE "return"
    /\ UNCHANGED <<audioSizeMB, audioTempFile, speedFile, segmentsDir, processFile,
                   clipboardCalls, saved, strategy, speedTried, splitInput,
                   clipboardOK>>

\* processLargeAudio: os.WriteFile(tempFile, wavData, 0644)
WriteTempFile ==
    /\ ppc = "write"
    /\ \E written \in BOOLEAN :
         IF written
         THEN /\ audioTempFile' = "wav"
              /\ processFile' = "tempFile"
              /\ ppc' = "speed"
              /\ UNCHANGED transcript
         ELSE /\ transcript' = <<>>
              /\ ppc' = "publish"
              /\ UNCHANGED <<audioTempFile, processFile>>
    /\ UNCHANGED <<audioSizeMB, speedFile, segmentsDir, directCalls, directErr,
                   clipboardCalls, saved, strategy, speedTried, splitInput,
                   directInput, clipboardOK>>

VeryLargeOrEqual == audioSizeMB >= MaxSegmentSizeMB * 2

\* the test for speeding the audio up
VeryLarge == audioSizeMB > MaxSegmentSizeMB * 2

\* processLargeAudio: speedUpAudio for very large audio
SpeedUp ==
    /\ ppc = "speed"
    /\ IF VeryLarge
       THEN \E sped \in BOOLEAN :
              IF sped
              THEN /\ processFile' = "speedFile"
                   /\ speedFile' = TRUE
                   /\ speedTried' = "ok"
              ELSE /\ speedTried' = "failed"
                   /\ UNCHANGED <<processFile, speedFile>>
       ELSE UNCHANGED <<processFile, speedFile, speedTried>>
    /\ ppc' = "mkdir"
    /\ UNCHANGED <<audioSizeMB, audioTempFile, segmentsDir, transcript, directCalls,
                   directErr, clipboardCalls, saved, strategy, splitInput,
                   directInput, clipboardOK>>

\* processLargeAudio: os.MkdirTemp
MakeSegmentsDir ==
    /\ ppc = "mkdir"
    /\ \E made \in BOOLEAN :
         IF made
         THEN segmentsDir' = TRUE /\ ppc' = "split"
         ELSE segmentsDir' = segmentsDir /\ ppc' = "largedirect"
    /\ UNCHANGED <<audioSizeMB, audioTempFile, speedFile, processFile, transcript,
                   directCalls, directErr, clipboardCalls, saved, strategy,
                   speedTried, splitInput, directInput, clipboardOK>>

\* splitAudioBySilence failed or found no segment file
SplitNothing ==
    /\ ppc = "split"
    /\ ppc' = "largedirect"
    /\ splitInput' = processFile
    /\ UNCHANGED <<audioSizeMB, audioTempFile, speedFile, segmentsDir, processFile,
                   transcript, directCalls, directErr, clipboardCalls, saved,
                   strategy, speedTried, directInput, clipboardOK>>

DirRemovedBySplit == FALSE

\* the segments directory when splitAudioBySilence returns: the function
\* removes nothing
DirAfterSplit == segmentsDir

\* transcribeSegmentsParallel is called with n segments: it makes its channels
\* and spawns one goroutine per segment
SpawnEngine(n) ==
    /\ nsegs' = n
    /\ wpc' = [i \in 0 .. (n - 1) |-> "acquire"]
    /\ model' = [i \in 0 .. (n - 1) |-> ""]
    /\ text' = [i \in 0 .. (n - 1) |-> <<>>]
    /\ err' = [i \in 0 .. (n - 1) |-> "nil"]
    /\ calls' = [i \in 0 .. (n - 1) |-> <<>>]
    /\ firstOK' = [i \in 0 .. (n - 1) |-> "pending"]
    /\ semaphore' = 0
    /\ wg' = n
    /\ resultChan' = <<>>
    /\ chanClosed' = FALSE
    /\ reordered' = FALSE
    /\ received' = [i \in 0 .. (n - 1) |-> 0]
    /\ results' = <<>>
    /\ transcriptParts' = <<>>
    /\ epc' = "collect"
    /\ combined' = <<>>
    /\ UNCHANGED maxWorkers

\* splitAudioBySilence found n segment files, and the engine is called
SplitAndSpawn(n) ==
    /\ ppc = "split"
    /\ ppc' = "engine"
    /\ SpawnEngine(n)
    /\ splitInput' = processFile
    /\ segmentsDir' = DirAfterSplit
    /\ UNCHANGED <<audioSizeMB, audioTempFile, speedFile,
                   processFile, transcript, directCalls, directErr, clipboardCalls, saved,
                   strategy, speedTried, directInput, clipboardOK>>

\* return app.transcribeSegmentsParallel(segments)
EngineReturns ==
    /\ ppc = "engine"
    /\ epc = "done"
    /\ transcript' = combined
    /\ ppc' = "return"
    /\ UNCHANGED <<audioSizeMB, audioTempFile, speedFile, segmentsDir, processFile,
                   directCalls, directErr, clipboardCalls, saved, strategy,
                   speedTried, splitInput, directInput, clipboardOK>>

\* processLargeAudio returns: os.RemoveAll(segmentsDir), os.Remove(speedFile),
\* os.Remove(tempFile), deferred
LargeReturn ==
    /\ ppc = "return"
    /\ segmentsDir' = FALSE
    /\ speedFile' = (speedFile /\ processFile # "speedFile")
    /\ audioTempFile' = "absent"
    /\ ppc' = "publish"
    /\ UNCHANGED <<audioSizeMB, processFile, transcript, directCalls, directErr,
                   clipboardCalls, saved, strategy, speedTried, splitInput,
                   directInput, clipboardOK>>

PersistAlwaysSaves(t, copied) == "save"

PersistOnlyAfterClipboardError(t, copied) ==
    IF t # <<>> /\ ~copied THEN "save" ELSE "cleanup"

\* what the goroutine does with the file at AudioTempFile at the end of a cycle
Persist(t, copied) ==
    IF t # <<>> THEN (IF copied THEN "cleanup" ELSE "save") ELSE "save"

\* the publish / persist step of the goroutine of startRecording
Publish ==
    /\ ppc = "publish"
    /\ \E copied, written \in BOOLEAN :
         /\ transcript = <<>> => ~copied
         /\ Persist(transcript, copied) = "cleanup" => written
         /\ clipboardCalls' = IF transcript # <<>> THEN clipboardCalls + 1 ELSE clipboardCalls
         /\ clipboardOK' = copied
         /\ IF Persist(transcript, copied) = "cleanup"
            THEN audioTempFile' = "absent" /\ saved' = saved
            ELSE /\ audioTempFile' = IF written THEN "wav" ELSE audioTempFile
                 /\ saved' = IF written THEN "written" ELSE "failed"
    /\ ppc' = "done"
    /\ UNCHANGED <<audioSizeMB, speedFile, segmentsDir, processFile, transcript,
                   directCalls, directErr, strategy, speedTried, splitInput,
                   directInput>>

InitPipeline ==
    /\ OthersIdle
    /\ ControllerProcessing
    /\ maxWorkers \in 1 .. MaxWorkersBound
    /\ EngineIdle
    /\ ppc = "dispatch"
    /\ audioSizeMB \in 1 .. MaxAudioSizeMB
    /\ audioTempFile \in {"absent", "stale"}
    /\ speedFile = FALSE
    /\ segmentsDir = FALSE
    /\ processFile = "none"
    /\ transcript = <<>>
    /\ directCalls = <<>>
    /\ directErr = "nil"
    /\ clipboardCalls = 0
    /\ saved = "none"
    /\ strategy = "none"
    /\ speedTried = "no"
    /\ splitInput = "none"
    /\ directInput = "none"
    /\ clipboardOK = FALSE

NextPipeline ==
    \/ Dispatch /\ UNCHANGED <<engVars, ctlVars, otherVars>>
    \/ DirectTranscribe /\ UNCHANGED <<engVars, ctlVars, otherVars>>
    \/ WriteTempFile /\ UNCHANGED <<engVars, ctlVars, otherVars>>
    \/ SpeedUp /\ UNCHANGED <<engVars, ctlVars, otherVars>>
    \/ MakeSegmentsDir /\ UNCHANGED <<engVars, ctlVars, otherVars>>
    \/ SplitNothing /\ UNCHANGED <<engVars, ctlVars, otherVars>>
    \/ (\E n \in 1 .. MaxPipelineSegs : SplitAndSpawn(n)) /\ UNCHANGED <<ctlVars, otherVars>>
    \/ (\E i \in Units : Acquire(i)) /\ UNCHANGED <<ctlVars, pipeVars, otherVars>>
    \/ (\E i \in Units : Return1(i)) /\ UNCHANGED <<ctlVars, pipeVars, otherVars>>
    \/ (\E i \in Units : Return2(i)) /\ UNCHANGED <<ctlVars, pipeVars, otherVars>>
    \/ (\E i \in Units : Send(i)) /\ UNCHANGED <<ctlVars, pipeVars, otherVars>>
    \/ (\E i \in Units : Release(i)) /\ UNCHANGED <<ctlVars, pipeVars, otherVars>>
    \/ (\E i \in Units : WgDone(i)) /\ UNCHANGED <<ctlVars, pipeVars, otherVars>>
    \/ CloseResults /\ UNCHANGED <<ctlVars, pipeVars, otherVars>>
    \/ Collect /\ UNCHANGED <<ctlVars, pipeVars, otherVars>>
    \/ Combine /\ UNCHANGED <<ctlVars, pipeVars, otherVars>>
    \/ EngineReturns /\ UNCHANGED <<engVars, ctlVars, otherVars>>
    \/ LargeReturn /\ UNCHANGED <<engVars, ctlVars, otherVars>>
    \/ Publish /\ UNCHANGED <<engVars, ctlVars, otherVars>>

SpecPipeline == InitPipeline /\ [][NextPipeline]_vars

\* ------------------------------------------------- the engine on its own
InitEngine ==
    /\ OthersIdle
    /\ maxWorkers \in 1 .. MaxWorkersBound
    /\ \E n \in 0 .. MaxSegs : EngineStart(n)
    /\ ControllerIdle
    /\ PipelineIdle

NextEngine ==
    \/ (\E i \in Units : Acquire(i)) /\ UNCHANGED <<ctlVars, pipeVars, otherVars>>
    \/ (\E i \in Units : Return1(i)) /\ UNCHANGED <<ctlVars, pipeVars, otherVars>>
    \/ (\E i \in Units : Return2(i)) /\ UNCHANGED <<ctlVars, pipeVars, otherVars>>
    \/ (\E i \in Units : Send(i)) /\ UNCHANGED <<ctlVars, pipeVars, otherVars>>
    \/ (\E i \in Units : Release(i)) /\ UNCHANGED <<ctlVars, pipeVars, otherVars>>
    \/ (\E i \in Units : WgDone(i)) /\ UNCHANGED <<ctlVars, pipeVars, otherVars>>
    \/ CloseResults /\ UNCHANGED <<ctlVars, pipeVars, otherVars>>
    \/ Collect /\ UNCHANGED <<ctlVars, pipeVars, otherVars>>
    \/ Combine /\ UNCHANGED <<ctlVars, pipeVars, otherVars>>

SpecEngine == InitEngine /\ [][NextEngine]_vars

\* Every goroutine that can take a step is eventually scheduled.
FairEngine ==
    /\ \A i \in 0 .. MaxSegs :
         WF_vars(i \in Units /\ WorkerStep(i) /\ UNCHANGED <<ctlVars, pipeVars, otherVars>>)
    /\ WF_vars(CloseResults /\ UNCHANGED <<ctlVars, pipeVars, otherVars>>)
    /\ WF_vars(Collect /\ UNCHANGED <<ctlVars, pipeVars, otherVars>>)
    /\ WF_vars(Combine /\ UNCHANGED <<ctlVars, pipeVars, otherVars>>)

FairSpecEngine == InitEngine /\ [][NextEngine]_vars /\ FairEngine

\* ================================================================== claims
\* units that hold a semaphore slot, and units with a client call in flight
Holders == {i \in Units : wpc[i] \in {"call1", "call2", "send", "release"}}
InFlight == {i \in Units : wpc[i] \in {"call1", "call2"}}

\* the unit's calls have all returned, and the last one gave usable text
Returned(i) == wpc[i] \in {"send", "release", "wgdone", "done"}
Succeeded(i) == Returned(i) /\ err[i] = "nil" /\ text[i] # <<>>

\* C4: the units holding a semaphore slot, and so the client calls in flight
\* (first and second attempts alike), never number more than MaxWorkers.
C4_BoundedConcurrency ==
    /\ Cardinality(Holders) <= maxWorkers
    /\ Cardinality(InFlight) <= maxWorkers

\* MaxWorkers calls in flight, a second attempt among them, while a unit waits
C4_Witness ==
    /\ maxWorkers >= 2
    /\ Cardinality(InFlight) = maxWorkers
    /\ \E i \in Units : wpc[i] = "call2"
    /\ \E i \in Units : wpc[i] = "acquire"

\* the unit a word of the transcript comes from
UnitOfText(t) ==
    CHOOSE i \in 0 .. MaxSegs : t \in {Words(i, PrimaryModel), Words(i, FallbackModel)}

\* the texts of the units whose last attempt was usable, by ascending index,
\* computed from the per-call outcomes alone
RECURSIVE UsableTextsFrom(_)
UsableTextsFrom(i) ==
    IF i >= nsegs THEN <<>>
    ELSE (IF Succeeded(i) THEN <<text[i]>> ELSE <<>>) \o UsableTextsFrom(i + 1)

\* C5: whatever the order in which the workers complete, the returned transcript
\* lists the successful units' texts by ascending segment index, and it is the
\* function of the per-call outcomes that the index-ordered join gives.
C5_OrderedReassembly ==
    epc = "done" =>
        /\ \A j, k \in 1 .. Len(transcriptParts) :
              j < k => UnitOfText(transcriptParts[j]) < UnitOfText(transcriptParts[k])
        /\ combined = Join(UsableTextsFrom(0), <<" ">>)

\* the engine has returned at least two texts that arrived out of index order
C5_Witness ==
    /\ epc = "done"
    /\ reordered
    /\ Len(transcriptParts) >= 2

\* C6: a unit makes a second attempt if and only if its first attempt returned
\* an error or empty text, for even and odd unit indices alike.
C6_SecondIffFirstFailed ==
    \A i \in Units :
        firstOK[i] # "pending" => ((Len(calls[i]) = 2) <=> firstOK[i] = "no")

\* C7: the first attempt of unit 2k goes to the primary model and the first
\* attempt of unit 2k+1 to the fallback model, whatever the schedule and
\* whatever the other units' outcomes.
C7_ParityAssignment ==
    \A k \in 0 .. MaxSegs :
        /\ (2 * k \in Units /\ Len(calls[2 * k]) >= 1) => calls[2 * k][1] = PrimaryModel
        /\ (2 * k + 1 \in Units /\ Len(calls[2 * k + 1]) >= 1)
              => calls[2 * k + 1][1] = FallbackModel

\* unit 2 started before unit 1, which started after unit 0 had failed
C7_Witness ==
    /\ nsegs >= 3
    /\ firstOK[0] = "no"
    /\ Len(calls[2]) >= 1 /\ firstOK[2] # "pending"
    /\ wpc[1] = "call1"

RECURSIVE SumLen(_)
SumLen(parts) == IF parts = <<>> THEN 0 ELSE Len(Head(parts)) + SumLen(Tail(parts))

\* C8: the returned transcript consists of exactly the texts of the units whose
\* last attempt gave non-empty text, each once, joined by one space, with no
\* separator at either end; a unit that failed contributes nothing.
C8_PartialSuccess ==
    epc = "done" =>
        LET ok == {i \in Units : err[i] = "nil" /\ text[i] # <<>>}
            k == Len(transcriptParts)
        IN  /\ k = Cardinality(ok)
            /\ \A i \in ok : \E p \in 1 .. k : transcriptParts[p] = text[i]
            /\ \A p \in 1 .. k : \E i \in ok : transcriptParts[p] = text[i]
            /\ Len(combined) = SumLen(transcriptParts) + (IF k = 0 THEN 0 ELSE k - 1)
            /\ \A p \in 1 .. k - 1 :
                  combined[SumLen(SubSeq(transcriptParts, 1, p)) + p] = " "
            /\ k > 0 => /\ Head(combined) \notin WhiteSpace
                        /\ combined[Len(combined)] \notin WhiteSpace

\* two units succeeded around one that failed, one of them on its retry
C8_Witness ==
    /\ epc = "done"
    /\ nsegs >= 3
    /\ Len(transcriptParts) = 2
    /\ \E i \in Units : Len(calls[i]) = 2 /\ Succeeded(i)
    /\ \E i \in Units : ~Succeeded(i) /\ err[i] = "nil"

\* C10: under fair scheduling every unit delivers its outcome and the engine
\* returns, whichever units fail.
C10_UnitIsolation == <>[](epc = "done" /\ Delivered = Units)

\* the engine has returned although a unit failed while others were waiting
C10_Witness ==
    /\ epc = "done"
    /\ nsegs > maxWorkers
    /\ \E i \in Units : ~Succeeded(i)
    /\ \E i \in Units : Succeeded(i)

\* ------------------------------------------------------- controller claims
\* the pipeline goroutines that have been spawned and have not yet returned
Alive == {c \in Cycles : gpc[c] \notin {"none", "done"}}

Idle == ~isRecording /\ ~isProcessing
Recording == isRecording
Processing == isProcessing /\ ~isRecording

\* C1: at most one pipeline goroutine is in flight at any time.
C1_SingleFlight == Cardinality(Alive) <= 1

\* a second recording is running after the first pipeline has returned, and a
\* toggle is being handled
C1_Witness ==
    /\ gpc[1] = "done"
    /\ gpc[2] = "pipeline"
    /\ mpc = "check"

\* C2: a step of toggleRecording taken while the session is Processing changes
\* neither flag nor arecordCmd, starts no capture process and no goroutine, and
\* leads back to the signal loop.
C2_ToggleIgnoredWhileProcessing ==
    [][(Processing /\ mpc' # mpc)
         => /\ UNCHANGED <<isRecording, isProcessing, arecordCmd, capture, gpc, cycles>>
            /\ mpc' \in {"check", "loop"}]_vars

\* a toggle is being handled while the pipeline of a recording runs
C2_Witness ==
    /\ Processing
    /\ mpc = "check"
    /\ \E c \in Cycles : gpc[c] = "pipeline"

\* C3: under fair scheduling, with every external call returning, a session
\* that is Processing eventually is Idle.
C3_ProcessingReturnsToIdle == Processing ~> Idle

\* --------------------------------------------------------- pipeline claims
\* the cycle has ended and no unit produced text: the engine ran and every
\* unit's last attempt failed, or the direct call failed
DirectFailed == directCalls # <<>> /\ directErr # "nil"
EngineAllFailed == epc = "done" /\ nsegs >= 1 /\ \A i \in Units : ~Succeeded(i)
TotalFailure == ppc = "done" /\ (DirectFailed \/ EngineAllFailed)

C11_DispatchBySize ==
    /\ ppc = "dispatch" => strategy = "none"
    /\ ppc # "dispatch" =>
          strategy = IF audioSizeMB <= MaxSegmentSizeMB THEN "direct" ELSE "large"
    /\ strategy = "direct" =>
          /\ ppc \in {"direct", "publish", "done"}
          /\ processFile = "none" /\ speedTried = "no" /\ splitInput = "none"
          /\ epc = "none"
    /\ strategy = "large" => ppc # "direct"

C11_Witness ==
    /\ audioSizeMB = MaxSegmentSizeMB
    /\ strategy = "direct"
    /\ ppc = "publish"
    /\ directCalls = <<PrimaryModel>>

\* C12: on the direct path transcribeAudio calls the primary model first, and a
\* direct transcription that ends with an error or with empty text has called
\* the fallback model exactly once after it.
C12_DirectModeFallback ==
    (strategy = "direct" /\ ppc \in {"publish", "done"}) =>
        /\ directCalls # <<>>
        /\ directCalls[1] = PrimaryModel
        /\ (directErr = "error" \/ transcript = <<>>) =>
               directCalls = <<PrimaryModel, FallbackModel>>

\* processLargeAudio has passed its test for speeding the audio up
PastSpeedTest == processFile # "none" /\ ppc # "speed"

SegmenterGaveNothing == splitInput # "none" /\ nsegs = 0

\* C14: when the segmenter returns no segment the engine is never started and
\* one transcribeAudio call is made on the framed recording itself, also when
\* the audio had been sped up.
C14_NoSegmentsFallsBackToDirect ==
    SegmenterGaveNothing =>
        /\ epc = "none"
        /\ ppc \in {"largedirect", "return", "publish", "done"}
        /\ ppc # "largedirect" =>
               /\ directInput = "wavData"
               /\ directCalls = <<PrimaryModel>>

C14_Witness ==
    /\ SegmenterGaveNothing
    /\ speedTried = "ok"
    /\ splitInput = "speedFile"
    /\ directInput = "wavData"
    /\ ppc = "done"

\* ------------------------------------------------------ the debug file
\* the cycle produced a transcript and copied it to the clipboard
Published == transcript # <<>> /\ clipboardOK

HandlerAtFlag == mpc \in {"clear", "set", "check", "start"}

\* the next step of goroutine c is its deferred function, which writes
\* isProcessing and reads both flags
CallbackAtFlag(c) == gpc[c] = "defer"

\* C15: the toggle handler and the deferred function of a pipeline goroutine
\* are never both about to access the flags of recordingState: their accesses
\* exclude each other.
C15_FlagAccessSerialized ==
    ~(HandlerAtFlag /\ \E c \in Cycles : CallbackAtFlag(c))

\* goroutine c has returned because io.ReadAll failed
CaptureFailed(c) == readErr[c] = "error" /\ gpc[c] = "done"

\* C16: when the goroutine of the latest recording has returned on a read
\* error and no toggle is being handled, the session is Idle.
C16_CaptureErrorReturnsToIdle ==
    \A c \in Cycles : (CaptureFailed(c) /\ c = cycles /\ mpc = "loop") => Idle

\* ------------------------------------------------ the engine's bookkeeping
\* C17: a unit causes at most two calls of the transcription client, a first
\* attempt and at most one retry, whatever the calls return.
C17_AtMostTwoCalls ==
    \A i \in Units :
        /\ Len(calls[i]) <= 2
        /\ wpc[i] = "acquire" <=> calls[i] = <<>>
        /\ wpc[i] = "call2" => Len(calls[i]) = 2

\* both calls of a unit have failed and the unit has finished
C17_Witness ==
    \E i \in Units :
        /\ wpc[i] = "done"
        /\ Len(calls[i]) = 2
        /\ err[i] = "error"

\* the outcomes of unit i waiting in the result channel
InChannel(i) == {k \in 1 .. Len(resultChan) : resultChan[k].index = i}

\* unit i has sent its outcome
Sent(i) == wpc[i] \in {"release", "wgdone", "done"}

\* C18: every unit sends one outcome, which is in the channel or has been
\* received once, never both and never twice; a unit that is about to send
\* finds room in the channel and finds it open; the channel is closed only
\* after every unit has sent; when the engine returns, the collector has
\* received the outcome of every index 0..N-1 exactly once.
C18_OneOutcomePerIndex ==
    /\ \A i \in Units :
          Cardinality(InChannel(i)) + received[i] = IF Sent(i) THEN 1 ELSE 0
    /\ \A k \in 1 .. Len(resultChan) : resultChan[k].index \in Units
    /\ \A i \in Units :
          wpc[i] = "send" => (~chanClosed /\ Len(resultChan) < resultChanCap)
    /\ chanClosed => \A i \in Units : Sent(i)
    /\ epc = "done" => (resultChan = <<>> /\ \A i \in Units : received[i] = 1)

\* the collector lags: every outcome waits in the full channel
C18_Witness ==
    /\ nsegs = MaxSegs
    /\ Len(resultChan) = nsegs
    /\ \A i \in Units : wpc[i] = "done"
    /\ ~chanClosed

\* C19: the reassembly loop has run only when every segment goroutine has
\* finished and the collector has received every outcome.
C19_JoinBarrier ==
    epc = "done" =>
        /\ wg = 0
        /\ \A i \in Units : wpc[i] = "done" /\ received[i] = 1

\* the engine has returned after more units than worker slots, received out of
\* order
C19_Witness ==
    /\ epc = "done"
    /\ nsegs > maxWorkers
    /\ reordered
    /\ \A i \in Units : wpc[i] = "done" /\ received[i] = 1

\* ------------------------------------------------ dispatch of the pipeline
\* C24: processAudioAdvanced runs only while the session is Processing.
C24_PipelineOnlyWhileProcessing ==
    \A c \in Cycles : gpc[c] = "pipeline" => Processing

C27_HandlerNeverWaits == (mpc # "loop") ~> (mpc = "loop")

\* the handler goes on while the signalled capture process has not exited and
\* its goroutine still reads
C27_Witness ==
    /\ mpc = "set"
    /\ arecordCmd # 0
    /\ capture[arecordCmd] = "stopping"
    /\ gpc[arecordCmd] = "read"

\* C28: the results map changes only in a step of the collector, which takes
\* one outcome from the channel and adds one entry, under the index of that
\* outcome, where there was none; no step of a segment goroutine changes the
\* map, and a goroutine's send puts its own index in the channel.
C28_ResultsWrittenByCollectorOnly ==
    [][/\ results' # results =>
            /\ epc = "collect" /\ resultChan # <<>>
            /\ resultChan' = Tail(resultChan)
            /\ wpc' = wpc
            /\ Head(resultChan).index \notin DOMAIN results
            /\ DOMAIN results' = DOMAIN results \cup {Head(resultChan).index}
            /\ \A k \in DOMAIN results : results'[k] = results[k]
       /\ \A i \in Units :
            (wpc[i] = "send" /\ wpc'[i] = "release") =>
                /\ resultChan' = Append(resultChan, resultChan'[Len(resultChan')])
                /\ resultChan'[Len(resultChan')].index = i]_vars

\* the collector has stored two entries while a segment goroutine still runs
C28_Witness ==
    /\ Cardinality(DOMAIN results) >= 2
    /\ \E i \in Units : wpc[i] \in {"call1", "call2"}

\* =========================================================== createWAVData
\* A Go int is kept as two 16-bit limbs, value hi * Limb + lo, so that the
\* conversion to uint32 keeps its width.
Limb == 65536

Wide(n) == [hi |-> n \div Limb, lo |-> n % Limb]

\* x + k on int, for a small k
WidePlus(x, k) ==
    LET t == x.lo + k IN [hi |-> x.hi + (t \div Limb), lo |-> t % Limb]

\* the conversions uint32(x) and uint16(n)
uint32(x) == [hi |-> x.hi % Limb, lo |-> x.lo]
uint16(n) == n % Limb

writeUint32BE(v) ==
    <<(v.hi \div 256) % 256, v.hi % 256, (v.lo \div 256) % 256, v.lo % 256>>

\* the four bytes writeUint32LE stores: byte(v), byte(v>>8), byte(v>>16), byte(v>>24)
writeUint32LE(v) ==
    <<v.lo % 256, (v.lo \div 256) % 256, v.hi % 256, (v.hi \div 256) % 256>>

\* the two bytes writeUint16LE stores
writeUint16LE(v) == <<v % 256, (v \div 256) % 256>>

\* the bytes of "RIFF", "WAVE", "fmt " and "data"
RIFF == <<82, 73, 70, 70>>
WAVE == <<87, 65, 86, 69>>
FMT == <<102, 109, 116, 32>>
DATA == <<100, 97, 116, 97>>

\* A byte slice: its first bytes spelled out, followed by `more` bytes that
\* the model does not spell out.
LenOf(b) == WidePlus(b.more, Len(b.head))

\* the 44 bytes of header for a payload of dataSize bytes
wavHeader(dataSize) ==
    LET sampleRate == 16000
        channels == 1
        bitsPerSample == 16
    IN  RIFF \o writeUint32LE(uint32(WidePlus(dataSize, 36))) \o WAVE
        \o FMT \o writeUint32LE(uint32(Wide(16))) \o writeUint16LE(uint16(1))
        \o writeUint16LE(uint16(channels))
        \o writeUint32LE(uint32(Wide(sampleRate)))
        \o writeUint32LE(uint32(Wide((sampleRate * channels * bitsPerSample) \div 8)))
        \o writeUint16LE(uint16((channels * bitsPerSample) \div 8))
        \o writeUint16LE(uint16(bitsPerSample))
        \o DATA \o writeUint32LE(uint32(dataSize))

createWAVDataOverPayload(raw) ==
    [head |-> SubSeq(wavHeader(LenOf(raw)), 1, 43) \o raw.head, more |-> raw.more]

\* createWAVData: a new slice, the header and then the payload
createWAVData(raw) ==
    [head |-> wavHeader(LenOf(raw)) \o raw.head, more |-> raw.more]

\* the payloads of the model: up to MaxPayload bytes spelled out, followed by
\* a number of further bytes around the limits of 16 and 32 bits
PayloadBytes == {0, 255}
PayloadHeads == UNION {[1 .. n -> PayloadBytes] : n \in 0 .. MaxPayload}
LimbEdges == {0, 1, Limb - 1, Limb}
LowEdges == {0, Limb - 37, Limb - 36, Limb - 1}
Payloads ==
    {[head |-> h, more |-> [hi |-> a, lo |-> b]] :
        h \in PayloadHeads, a \in LimbEdges, b \in LowEdges}

\* the values ARECORD_RATE and ARECORD_CHANNELS take in the model
Rates == {DefaultRate, 44100}
Channels == {DefaultChannels, 2}

\* wavData := app.createWAVData(audioData)
Frame ==
    /\ fpc = "frame"
    /\ wavData' = createWAVData(rawData)
    /\ fpc' = "done"
    /\ UNCHANGED <<aRecordRate, aRecordChannels, rawData, rawGiven>>

InitWav ==
    /\ ControllerIdle
    /\ maxWorkers = DefaultMaxWorkers
    /\ EngineIdle
    /\ PipelineIdle
    /\ ProcIdle
    /\ GlobIdle
    /\ ExtrasIdle
    /\ aRecordRate \in Rates
    /\ aRecordChannels \in Channels
    /\ rawData \in Payloads
    /\ rawGiven = rawData
    /\ wavData = [head |-> <<>>, more |-> [hi |-> 0, lo |-> 0]]
    /\ fpc = "frame"

NextWav ==
    \/ Frame /\ UNCHANGED <<engVars, ctlVars, pipeVars, procVars, globVars, extraVars>>

SpecWav == InitWav /\ [][NextWav]_vars

\* the little-endian fields of a header, at a byte offset counted from 0
U32At(b, off) ==
    [hi |-> b[off + 3] + 256 * b[off + 4], lo |-> b[off + 1] + 256 * b[off + 2]]
U16At(b, off) == b[off + 1] + 256 * b[off + 2]

\* C21 as stated: for every payload length D the field at bytes 4..8 decodes
\* to 36 + D and the field at bytes 40..44 decodes to D.
C21_HeaderSizes ==
    fpc = "done" =>
        /\ U32At(wavData.head, 4) = WidePlus(LenOf(rawGiven), 36)
        /\ U32At(wavData.head, 40) = LenOf(rawGiven)

\* C21, amended: for every payload length D with 36 + D < 2^32 the field at
\* bytes 4..8 decodes to 36 + D and the field at bytes 40..44 decodes to D.
C21_HeaderSizesWithin32Bits ==
    (fpc = "done" /\ WidePlus(LenOf(rawGiven), 36).hi < Limb) =>
        /\ U32At(wavData.head, 4) = WidePlus(LenOf(rawGiven), 36)
        /\ U32At(wavData.head, 40) = LenOf(rawGiven)

\* the largest payload whose sizes fit has been framed
C21_Witness ==
    /\ fpc = "done"
    /\ Len(rawGiven.head) = 0
    /\ rawGiven.more = [hi |-> Limb - 1, lo |-> Limb - 37]
    /\ SubSeq(wavData.head, 5, 8) = <<255, 255, 255, 255>>

\* C29: the channel count, sample rate, byte rate and block align of the
\* header are those of the configured capture format (16-bit samples).
C29_HeaderDescribesCapture ==
    fpc = "done" =>
        /\ U16At(wavData.head, 22) = aRecordChannels
        /\ U32At(wavData.head, 24) = Wide(aRecordRate)
        /\ U32At(wavData.head, 28) = Wide(aRecordRate * aRecordChannels * 2)
        /\ U16At(wavData.head, 32) = aRecordChannels * 2

\* C30: the output is 44 bytes longer than the payload, starts with the
\* canonical header (RIFF, WAVE, fmt, chunk size 16, format 1, data), goes on
\* with the payload unchanged, and the payload itself is left as it was.
C30_PureFraming ==
    fpc = "done" =>
        /\ LenOf(wavData) = WidePlus(LenOf(rawGiven), 44)
        /\ Len(wavData.head) = 44 + Len(rawGiven.head)
        /\ SubSeq(wavData.head, 1, 4) = RIFF
        /\ SubSeq(wavData.head, 9, 12) = WAVE
        /\ SubSeq(wavData.head, 13, 16) = FMT
        /\ U32At(wavData.head, 16) = Wide(16)
        /\ U16At(wavData.head, 20) = 1
        /\ SubSeq(wavData.head, 37, 40) = DATA
        /\ SubSeq(wavData.head, 45, Len(wavData.head)) = rawGiven.head
        /\ wavData.more = rawGiven.more
        /\ rawData = rawGiven

\* a payload of more than 64 KiB whose first bytes differ has been framed
C30_Witness ==
    /\ fpc = "done"
    /\ rawGiven.head = <<0, 255>>
    /\ rawGiven.more.hi = 1
    /\ SubSeq(wavData.head, 45, 46) = <<0, 255>>

\* ===================================================== splitAudioBySilence
\* File names are sequences of character codes.
RECURSIVE DecimalDigits(_)
DecimalDigits(n) ==
    IF n < 10 THEN <<48 + n>> ELSE DecimalDigits(n \div 10) \o <<48 + (n % 10)>>

RECURSIVE ZeroPad(_, _)
ZeroPad(d, width) == IF Len(d) >= width THEN d ELSE ZeroPad(<<48>> \o d, width)

\* fmt's %03d
Format03d(n) == ZeroPad(DecimalDigits(n), 3)

\* "segment_" and ".wav"
SegmentPrefix == <<115, 101, 103, 109, 101, 110, 116, 95>>
WavSuffix == <<46, 119, 97, 118>>

\* the name of the n-th file sox writes under the pattern segment_%03d.wav
SegmentName(n) == SegmentPrefix \o Format03d(n) \o WavSuffix

\* a < b for Go strings: byte by byte, a proper prefix first
RECURSIVE StringLessFrom(_, _, _)
StringLessFrom(a, b, i) ==
    IF i > Len(a) THEN i <= Len(b)
    ELSE IF i > Len(b) THEN FALSE
    ELSE IF a[i] # b[i] THEN a[i] < b[i]
    ELSE StringLessFrom(a, b, i + 1)

StringLess(a, b) == StringLessFrom(a, b, 1)

\* the sorted listing of a directory after a file called name is added
Listed(dir, name) ==
    LET p == Cardinality({j \in 1 .. Len(dir) : ~StringLess(name, dir[j])})
    IN  SubSeq(dir, 1, p) \o <<name>> \o SubSeq(dir, p + 1, Len(dir))

\* sox writes its next output file
SoxWritesFile ==
    /\ spc = "sox"
    /\ nfiles < MaxSegmentFiles
    /\ nfiles' = nfiles + 1
    /\ listing' = Listed(listing, SegmentName(nfiles + 1))
    /\ UNCHANGED <<segments, spc>>

\* sox exits with an error: return []string{}
SoxFails ==
    /\ spc = "sox"
    /\ segments' = <<>>
    /\ spc' = "returned"
    /\ UNCHANGED <<nfiles, listing>>

\* filepath.Glob(segment_*.wav): the matching names, sorted
glob == listing

\* sox exits; segments, err := filepath.Glob(pattern); return segments
SoxExitsAndGlob ==
    /\ spc = "sox"
    /\ segments' = glob
    /\ spc' = "returned"
    /\ UNCHANGED <<nfiles, listing>>

InitSplit ==
    /\ ControllerIdle
    /\ maxWorkers = DefaultMaxWorkers
    /\ EngineIdle
    /\ PipelineIdle
    /\ WavIdle
    /\ ProcIdle
    /\ ExtrasIdle
    /\ nfiles = 0
    /\ listing = <<>>
    /\ segments = <<>>
    /\ spc = "sox"

notSplitVars == <<engVars, ctlVars, pipeVars, wavVars, procVars, extraVars>>

NextSplit ==
    \/ SoxWritesFile /\ UNCHANGED notSplitVars
    \/ SoxFails /\ UNCHANGED notSplitVars
    \/ SoxExitsAndGlob /\ UNCHANGED notSplitVars

SpecSplit == InitSplit /\ [][NextSplit]_vars

\* C26: the list splitAudioBySilence returns has, at index i counted from 0,
\* the (i+1)-th file sox wrote, for any number of files.
C26_IndexFollowsSegmenterOrder ==
    spc = "returned" =>
        \A i \in 1 .. Len(segments) : segments[i] = SegmentName(i)

\* ================================================== main: start and exit
\* main of instance i up to its signal loop: writePIDFile, startYAD
Launch(i) ==
    /\ ipc[i] = "off"
    /\ \E written, yadStarted \in BOOLEAN :
         IF written
         THEN /\ pidFile' = i
              /\ yadCmd' = [yadCmd EXCEPT ![i] = IF yadStarted THEN "running" ELSE "nil"]
              /\ ipc' = [ipc EXCEPT ![i] = "loop"]
         ELSE /\ ipc' = [ipc EXCEPT ![i] = "failed"]
              /\ UNCHANGED <<pidFile, yadCmd>>
    /\ UNCHANGED <<session, arecord, debugFile>>

\* SIGUSR1 while Idle: startRecording starts arecord
ToggleStart(i) ==
    /\ ipc[i] = "loop"
    /\ session[i] = "Idle"
    /\ session' = [session EXCEPT ![i] = "Recording"]
    /\ arecord' = [arecord EXCEPT ![i] = "running"]
    /\ UNCHANGED <<ipc, pidFile, yadCmd, debugFile>>

\* SIGUSR1 while Recording: arecord gets SIGTERM and exits
ToggleStop(i) ==
    /\ ipc[i] = "loop"
    /\ session[i] = "Recording"
    /\ session' = [session EXCEPT ![i] = "Processing"]
    /\ arecord' = [arecord EXCEPT ![i] = "exited"]
    /\ UNCHANGED <<ipc, pidFile, yadCmd, debugFile>>

\* the pipeline goroutine ends: cleanupTempAudio after a publish, else
\* saveAudioForDebugging
PipelineEnds(i) ==
    /\ ipc[i] = "loop"
    /\ session[i] = "Processing"
    /\ session' = [session EXCEPT ![i] = "Idle"]
    /\ \E published \in BOOLEAN : debugFile' = ~published
    /\ UNCHANGED <<ipc, pidFile, yadCmd, arecord>>

\* SIGTERM or SIGINT is taken from sigChan: cleanup, return from main
Terminate(i) ==
    /\ ipc[i] = "loop"
    /\ yadCmd' = [yadCmd EXCEPT ![i] = IF @ = "running" THEN "killed" ELSE @]
    /\ pidFile' = 0
    /\ ipc' = [ipc EXCEPT ![i] = "exited"]
    /\ UNCHANGED <<session, arecord, debugFile>>

InitMain ==
    /\ ControllerIdle
    /\ maxWorkers = DefaultMaxWorkers
    /\ EngineIdle
    /\ PipelineIdle
    /\ WavIdle
    /\ GlobIdle
    /\ ExtrasIdle
    /\ ProcIdle

notMainVars == <<engVars, ctlVars, pipeVars, wavVars, globVars, extraVars>>

NextMain ==
    \/ (\E i \in Instances : Launch(i)) /\ UNCHANGED notMainVars
    \/ (\E i \in Instances : ToggleStart(i)) /\ UNCHANGED notMainVars
    \/ (\E i \in Instances : ToggleStop(i)) /\ UNCHANGED notMainVars
    \/ (\E i \in Instances : PipelineEnds(i)) /\ UNCHANGED notMainVars
    \/ (\E i \in Instances : Terminate(i)) /\ UNCHANGED notMainVars

SpecMain == InitMain /\ [][NextMain]_vars

\* C22: an instance that has exited on a termination signal has left no
\* capture process and no tray icon running, and neither its PID file nor a
\* file at AudioTempFile.
C22_TerminationTearsDown ==
    \A i \in Instances :
        ipc[i] = "exited" =>
            /\ arecord[i] # "running"
            /\ yadCmd[i] # "running"
            /\ pidFile # i
            /\ ~debugFile

\* the instances that handle toggles
RunningInstances == {i \in Instances : ipc[i] = "loop"}

\* C23: at most one instance handles toggles at a time, and while one does
\* the PID file names it.
C23_SingleInstance ==
    /\ Cardinality(RunningInstances) <= 1
    /\ RunningInstances # {} => pidFile \in RunningInstances

\* ---------------------------------------------------------------------
\* C32: in every reachable state of the controller of main.go the flags
\* isRecording and isProcessing are not both true, so the session is in
\* exactly one of Idle, Recording and Processing.
C32_FlagsExclusive == ~(isRecording /\ isProcessing)

\* A second recording is running after the first one went through
\* Processing and its goroutine has finished.
C32_Witness ==
    /\ mpc = "loop"
    /\ isRecording /\ ~isProcessing
    /\ cycles = 2
    /\ gpc[1] = "done"

\* ---------------------------------------------------------------------
\* C34: whenever transcribeSegmentFile returns a nil error the text it
\* returns is not empty, whatever the text of the answer (white space only
\* included). text[i] and err[i] hold what the unit's latest call returned.
C34_NilErrorHasText ==
    \A i \in Units :
        (wpc[i] \in {"call2", "send", "release", "wgdone", "done"} /\ err[i] = "nil")
            => text[i] # <<>>

\* ---------------------------------------------------------------------
\* the configuration loader: MAX_WORKERS in the environment
\* os.Getenv gives "" for an unset variable; strconv.Atoi fails on text that
\* is not a number and returns any integer it can parse, sign included.
EnvValues ==
    {[kind |-> "unset", n |-> 0], [kind |-> "junk", n |-> 0]}
        \cup {[kind |-> "int", n |-> k] : k \in -1 .. MaxWorkersBound}

getEnvInt(value, defaultValue) ==
    IF value.kind = "int" THEN value.n ELSE defaultValue

\* make(chan struct{}, app.config.MaxWorkers) panics for a negative size,
\* before any goroutine is spawned
EnginePanicked(n) ==
    /\ nsegs = n
    /\ wpc = [i \in 0 .. (n - 1) |-> "unborn"]
    /\ model = [i \in 0 .. (n - 1) |-> ""]
    /\ text = [i \in 0 .. (n - 1) |-> <<>>]
    /\ err = [i \in 0 .. (n - 1) |-> "nil"]
    /\ calls = [i \in 0 .. (n - 1) |-> <<>>]
    /\ firstOK = [i \in 0 .. (n - 1) |-> "pending"]
    /\ semaphore = 0
    /\ wg = 0
    /\ resultChan = <<>>
    /\ chanClosed = FALSE
    /\ reordered = FALSE
    /\ received = [i \in 0 .. (n - 1) |-> 0]
    /\ results = <<>>
    /\ transcriptParts = <<>>
    /\ epc = "panic"
    /\ combined = <<>>

\* transcribeSegmentsParallel is entered with N >= 1 segments and the
\* MaxWorkers that LoadConfig read from the environment
InitEngineEnv ==
    /\ OthersIdle
    /\ \E value \in EnvValues : maxWorkers = getEnvInt(value, DefaultMaxWorkers)
    /\ \E n \in 1 .. MaxSegs : IF maxWorkers < 0 THEN EnginePanicked(n) ELSE EngineStart(n)
    /\ ControllerIdle
    /\ PipelineIdle

FairSpecEngineEnv == InitEngineEnv /\ [][NextEngine]_vars /\ FairEngine

\* C33: transcribeSegmentsParallel terminates (every goroutine gets a
\* semaphore slot and delivers its outcome, and the function returns) for
\* every N >= 1 and every MaxWorkers that getEnvInt can produce, each client
\* call returning.
C33_TerminatesForAnyMaxWorkers ==
    <>(epc = "done" /\ \A i \in Units : wpc[i] = "done" /\ received[i] = 1)

\* ---------------------------------------------------------------------
\* os.ReadFile(segmentFile) runs at the start of every call of
\* transcribeSegmentFile: unit i starts a call in this step
StartsCall(i) == wpc'[i] \in {"call1", "call2"} /\ wpc'[i] # wpc[i]

\* C35: in main.go every segment file exists from the return of
\* splitAudioBySilence until the last attempt of its segment has read it (the
\* files live and die with the segments directory), and the directory is
\* removed only after transcribeSegmentsParallel, if it was called, has
\* returned.
C35_SegmentsOutliveReads ==
    [][/\ (\E i \in Units : StartsCall(i)) => (segmentsDir /\ segmentsDir')
       /\ (ppc = "split" /\ ppc' = "engine") => segmentsDir'
       /\ (segmentsDir /\ ~segmentsDir') =>
              (ppc = "return" /\ epc # "collect" /\ \A i \in Units : wpc[i] = "done")]_vars

\* a unit is in its second attempt, after another unit has finished, and
\* the directory is still there
C35_Witness ==
    /\ ppc = "engine"
    /\ segmentsDir
    /\ \E i \in Units : wpc[i] = "call2"
    /\ \E j \in Units : wpc[j] = "done"

\* =====================================================================
\* The staging of segment files by processLargeAudio, for several large-mode
\* runs on one machine (runs of one instance, or of two instances of the
\* program, which share os.TempDir()).
DirNames == 1 .. MaxDirNames

\* segment file number k of directory d, written by run r
StageFile(d, k, r) == [dir |-> d, k |-> k, by |-> r]

FixedDirName == {1}

\* os.MkdirTemp("", "voice_ai_segments_") creates a directory under a name
\* that nothing exists under
MkdirTempNames == DirNames \ tmpDirs

\* a large-mode run reaches the segmenting part of processLargeAudio
StageStarts(r) ==
    /\ rpc[r] = "idle"
    /\ rpc' = [rpc EXCEPT ![r] = "mkdir"]
    /\ UNCHANGED <<runDir, tmpDirs, tmpFiles, created, handed>>

\* os.MkdirTemp; on an error the run falls back to transcribeAudio(wavData)
MkdirTemp(r) ==
    /\ rpc[r] = "mkdir"
    /\ \/ \E d \in MkdirTempNames :
            /\ tmpDirs' = tmpDirs \cup {d}
            /\ runDir' = [runDir EXCEPT ![r] = d]
            /\ rpc' = [rpc EXCEPT ![r] = "sox"]
       \/ /\ rpc' = [rpc EXCEPT ![r] = "done"]
          /\ UNCHANGED <<runDir, tmpDirs>>
    /\ UNCHANGED <<tmpFiles, created, handed>>

\* sox writes segment_001.wav .. segment_00n.wav into the run's directory,
\* over any file of the same name, and exits with or without an error
SoxRuns(r) ==
    /\ rpc[r] = "sox"
    /\ \E n \in 0 .. MaxStageFiles, ok \in BOOLEAN :
         /\ created' = [created EXCEPT ![r] = {StageFile(runDir[r], k, r) : k \in 1 .. n}]
         /\ tmpFiles' = {f \in tmpFiles : ~(f.dir = runDir[r] /\ f.k \in 1 .. n)}
                           \cup created'[r]
         /\ rpc' = [rpc EXCEPT ![r] = IF ok THEN "glob" ELSE "return"]
    /\ UNCHANGED <<runDir, tmpDirs, handed>>

\* filepath.Glob(filepath.Join(outputDir, "segment_*.wav")); an empty list makes
\* processLargeAudio fall back to transcribeAudio(wavData)
GlobStage(r) ==
    /\ rpc[r] = "glob"
    /\ handed' = [handed EXCEPT ![r] = {f \in tmpFiles : f.dir = runDir[r]}]
    /\ rpc' = [rpc EXCEPT ![r] = IF handed'[r] = {} THEN "return" ELSE "engine"]
    /\ UNCHANGED <<runDir, tmpDirs, tmpFiles, created>>

\* transcribeSegmentsParallel(segments) returns
EngineReturnsStage(r) ==
    /\ rpc[r] = "engine"
    /\ rpc' = [rpc EXCEPT ![r] = "return"]
    /\ UNCHANGED <<runDir, tmpDirs, tmpFiles, created, handed>>

\* the deferred os.RemoveAll(segmentsDir), whose error is dropped
RemoveAllStage(r) ==
    /\ rpc[r] = "return"
    /\ rpc' = [rpc EXCEPT ![r] = "done"]
    /\ \E removed \in BOOLEAN :
         IF removed
         THEN /\ tmpDirs' = tmpDirs \ {runDir[r]}
              /\ tmpFiles' = {f \in tmpFiles : f.dir # runDir[r]}
         ELSE UNCHANGED <<tmpDirs, tmpFiles>>
    /\ UNCHANGED <<runDir, created, handed>>

InitStage ==
    /\ ControllerIdle
    /\ maxWorkers = DefaultMaxWorkers
    /\ EngineIdle
    /\ PipelineIdle
    /\ WavIdle
    /\ ProcIdle
    /\ GlobIdle
    /\ RestIdle
    /\ MutexIdle
    /\ VariantIdle
    /\ StageIdle

notStageVars == <<engVars, ctlVars, pipeVars, wavVars, procVars, globVars, restVars, mutexVars,
                  variantVars>>

NextStage ==
    \/ (\E r \in Runs : StageStarts(r)) /\ UNCHANGED notStageVars
    \/ (\E r \in Runs : MkdirTemp(r)) /\ UNCHANGED notStageVars
    \/ (\E r \in Runs : SoxRuns(r)) /\ UNCHANGED notStageVars
    \/ (\E r \in Runs : GlobStage(r)) /\ UNCHANGED notStageVars
    \/ (\E r \in Runs : EngineReturnsStage(r)) /\ UNCHANGED notStageVars
    \/ (\E r \in Runs : RemoveAllStage(r)) /\ UNCHANGED notStageVars

SpecStage == InitStage /\ [][NextStage]_vars

\* the run has a segments directory of its own and has not yet removed it
Staging(r) == rpc[r] \in {"sox", "glob", "engine", "return"}

\* C31: each large-mode run stages its segments in a directory that no other
\* run uses, and the segments handed to the engine are exactly the files the
\* segmenter created during that run: no file of another run is transcribed.
C31_FreshDirPerRun ==
    /\ \A r1, r2 \in Runs :
         (r1 # r2 /\ Staging(r1) /\ Staging(r2)) => runDir[r1] # runDir[r2]
    /\ \A r \in Runs :
         rpc[r] = "engine" =>
             (handed[r] = created[r] /\ \A f \in handed[r] : f.by = r)

\* two runs are in the engine at the same time, each with its own files
C31_Witness ==
    /\ rpc[1] = "engine" /\ rpc[2] = "engine"
    /\ Cardinality(handed[1]) > Cardinality(handed[2])
    /\ handed[2] # {}

\* =====================================================================
\* The segmenting REST variant: the second program of main-rest.go.
\* transcribeWithRest, after the HTTP request has returned resp
transcribeWithRest(resp) ==
    IF resp.fail THEN [text |-> <<>>, err |-> "error"]
    ELSE IF resp.text = <<>> THEN [text |-> <<>>, err |-> "error"]
    ELSE [text |-> TrimSpace(resp.text), err |-> "nil"]

\* the file of unit i's segment path is in the segments directory
RestFileExists(i) == restDir /\ restSegments[i + 1] \in restFiles

\* splitAudioBySilence: os.MkdirAll("/tmp/voice_ai_segments")
RestMkdirAll ==
    /\ xpc = "mkdirall"
    /\ restDir' = TRUE
    /\ xpc' = "sox"
    /\ UNCHANGED <<restFiles, restSegments, restTranscript>>

\* sox writes n segment files and exits, with or without an error
RestSox ==
    /\ xpc = "sox"
    /\ \E n \in 0 .. MaxPipelineSegs, ok \in BOOLEAN :
         /\ restFiles' = 1 .. n
         /\ xpc' = IF ok THEN "glob" ELSE "soxfailed"
    /\ UNCHANGED <<restDir, restSegments, restTranscript>>

\* splitAudioBySilence returns the Glob result, or an empty list after an
\* error of sox; its deferred os.RemoveAll(tempDir) runs at the return
RestSplitReturns ==
    /\ xpc \in {"glob", "soxfailed"}
    /\ restSegments' = IF xpc = "glob" THEN [k \in 1 .. Cardinality(restFiles) |-> k] ELSE <<>>
    /\ restDir' = FALSE
    /\ restFiles' = {}
    /\ xpc' = "splitdone"
    /\ UNCHANGED restTranscript

\* len(segments) == 0: transcribeAudio(wavData)
RestFallback ==
    /\ xpc = "splitdone"
    /\ Len(restSegments) = 0
    /\ \E resp \in DirectResponses : restTranscript' = transcribeWithRest(resp).text
    /\ xpc' = "done"
    /\ UNCHANGED <<restDir, restFiles, restSegments>>

\* return app.transcribeSegmentsParallel(segments): the call
RestSpawn ==
    /\ xpc = "splitdone"
    /\ Len(restSegments) > 0
    /\ SpawnEngine(Len(restSegments))
    /\ xpc' = "engine"
    /\ UNCHANGED <<restDir, restFiles, restSegments, restTranscript>>

\* transcribeSegmentFile of main-rest.go: os.ReadFile fails for a missing
\* file, and the call returns its error without a request
RestReturn1(i) == Return1(i) /\ (~RestFileExists(i) => err'[i] = "error")

RestReturn2(i) == Return2(i) /\ (~RestFileExists(i) => err'[i] = "error")

\* transcribeSegmentsParallel returns; the deferred loop of os.Remove(segment)
RestEngineReturns ==
    /\ xpc = "engine"
    /\ epc = "done"
    /\ restTranscript' = combined
    /\ restFiles' = restFiles \ {restSegments[k] : k \in 1 .. Len(restSegments)}
    /\ xpc' = "done"
    /\ UNCHANGED <<restDir, restSegments>>

InitRest ==
    /\ ControllerIdle
    /\ maxWorkers \in 1 .. MaxWorkersBound
    /\ EngineIdle
    /\ PipelineIdle
    /\ WavIdle
    /\ ProcIdle
    /\ GlobIdle
    /\ StageIdle
    /\ MutexIdle
    /\ VariantIdle
    /\ xpc = "mkdirall"
    /\ restDir = FALSE
    /\ restFiles = {}
    /\ restSegments = <<>>
    /\ restTranscript = <<>>

notRestVars == <<ctlVars, pipeVars, wavVars, procVars, globVars, stageVars, mutexVars,
                 variantVars>>

NextRest ==
    \/ RestMkdirAll /\ UNCHANGED <<engVars, notRestVars>>
    \/ RestSox /\ UNCHANGED <<engVars, notRestVars>>
    \/ RestSplitReturns /\ UNCHANGED <<engVars, notRestVars>>
    \/ RestFallback /\ UNCHANGED <<engVars, notRestVars>>
    \/ RestSpawn /\ UNCHANGED notRestVars
    \/ (\E i \in Units : Acquire(i)) /\ UNCHANGED <<restVars, notRestVars>>
    \/ (\E i \in Units : RestReturn1(i)) /\ UNCHANGED <<restVars, notRestVars>>
    \/ (\E i \in Units : RestReturn2(i)) /\ UNCHANGED <<restVars, notRestVars>>
    \/ (\E i \in Units : Send(i)) /\ UNCHANGED <<restVars, notRestVars>>
    \/ (\E i \in Units : Release(i)) /\ UNCHANGED <<restVars, notRestVars>>
    \/ (\E i \in Units : WgDone(i)) /\ UNCHANGED <<restVars, notRestVars>>
    \/ CloseResults /\ UNCHANGED <<restVars, notRestVars>>
    \/ Collect /\ UNCHANGED <<restVars, notRestVars>>
    \/ Combine /\ UNCHANGED <<restVars, notRestVars>>
    \/ RestEngineReturns /\ UNCHANGED <<engVars, notRestVars>>

SpecRest == InitRest /\ [][NextRest]_vars

\* C36: in the segmenting REST variant every segment path returned by
\* splitAudioBySilence refers to a file that still exists when
\* transcribeSegmentFile reads it (a call of unit i is under way), so that a
\* recording that was split can yield a transcript.
C36_SegmentExistsWhenRead ==
    \A i \in Units : wpc[i] \in {"call1", "call2"} => RestFileExists(i)

\* =====================================================================
\* The mutex-based controller of src/unnamed/part_000. toggleRecording holds
\* app.mu from its first line to its return; the recording goroutine takes no
\* lock, and reads app.arecordCmd anew at each use.
muLocked == hpc # "loop"

\* the capture processes that are running
Capturing == {c \in Cycles : cmd[c] \in {"running", "signalled"}}

\* SIGUSR1: app.mu.Lock(), and the test of app.isRecording. A start past
\* MaxCycles is left out of the model.
MuToggle ==
    /\ hpc = "loop"
    /\ muIsRecording \/ muIsProcessing \/ muArecordCmd < MaxCycles
    /\ hpc' = IF muIsRecording THEN "stop" ELSE "start"
    /\ UNCHANGED <<muIsRecording, muIsProcessing, muArecordCmd, cmd, rgpc, pipeOf>>

\* the stop branch: SIGTERM to app.arecordCmd.Process if there is one, then
\* the two flags, then the deferred Unlock
MuStop ==
    /\ hpc = "stop"
    /\ cmd' = IF muArecordCmd # 0 /\ cmd[muArecordCmd] = "running"
              THEN [cmd EXCEPT ![muArecordCmd] = "signalled"] ELSE cmd
    /\ muIsRecording' = FALSE
    /\ muIsProcessing' = TRUE
    /\ hpc' = "loop"
    /\ UNCHANGED <<muArecordCmd, rgpc, pipeOf>>

\* the start branch: the test of app.isProcessing, then startRecording, which
\* makes a new exec.Cmd and spawns the recording goroutine
MuStart ==
    /\ hpc = "start"
    /\ IF muIsProcessing
       THEN UNCHANGED <<muArecordCmd, cmd, rgpc>>
       ELSE /\ muArecordCmd' = muArecordCmd + 1
            /\ cmd' = [cmd EXCEPT ![muArecordCmd + 1] = "new"]
            /\ rgpc' = [rgpc EXCEPT ![muArecordCmd + 1] = "pipe"]
    /\ hpc' = "loop"
    /\ UNCHANGED <<muIsRecording, muIsProcessing, pipeOf>>

\* app.arecordCmd.StdoutPipe(): an error if Stdout is already set
RgPipe(g) ==
    /\ rgpc[g] = "pipe"
    /\ IF cmd[muArecordCmd] = "new"
       THEN /\ cmd' = [cmd EXCEPT ![muArecordCmd] = "piped"]
            /\ pipeOf' = [pipeOf EXCEPT ![g] = muArecordCmd]
            /\ rgpc' = [rgpc EXCEPT ![g] = "start"]
       ELSE /\ rgpc' = [rgpc EXCEPT ![g] = "done"]
            /\ UNCHANGED <<cmd, pipeOf>>
    /\ UNCHANGED <<hpc, muIsRecording, muIsProcessing, muArecordCmd>>

\* app.arecordCmd.Start(): an error if the Cmd was started before
RgStart(g) ==
    /\ rgpc[g] = "start"
    /\ IF cmd[muArecordCmd] \in {"new", "piped"}
       THEN /\ cmd' = [cmd EXCEPT ![muArecordCmd] = "running"]
            /\ rgpc' = [rgpc EXCEPT ![g] = "set"]
       ELSE /\ rgpc' = [rgpc EXCEPT ![g] = "done"]
            /\ UNCHANGED cmd
    /\ UNCHANGED <<hpc, muIsRecording, muIsProcessing, muArecordCmd, pipeOf>>

\* app.isRecording = true, without the lock
RgSet(g) ==
    /\ rgpc[g] = "set"
    /\ muIsRecording' = TRUE
    /\ rgpc' = [rgpc EXCEPT ![g] = "read"]
    /\ UNCHANGED <<hpc, muIsProcessing, muArecordCmd, cmd, pipeOf>>

\* io.ReadAll(stdout) returns when the process at the other end has exited
RgRead(g) ==
    /\ rgpc[g] = "read"
    /\ cmd[pipeOf[g]] = "exited"
    /\ rgpc' = [rgpc EXCEPT ![g] = "wait"]
    /\ UNCHANGED <<hpc, muIsRecording, muIsProcessing, muArecordCmd, cmd, pipeOf>>

\* app.arecordCmd.Wait() returns once that process has exited, or at once
\* with an error if it was never started; then go app.processAudioAdvanced
RgWait(g) ==
    /\ rgpc[g] = "wait"
    /\ cmd[muArecordCmd] \notin {"running", "signalled"}
    /\ rgpc' = [rgpc EXCEPT ![g] = "process"]
    /\ UNCHANGED <<hpc, muIsRecording, muIsProcessing, muArecordCmd, cmd, pipeOf>>

\* processAudioAdvanced returns: the deferred Lock, isProcessing = false, Unlock
RgProcessed(g) ==
    /\ rgpc[g] = "process"
    /\ ~muLocked
    /\ muIsProcessing' = FALSE
    /\ rgpc' = [rgpc EXCEPT ![g] = "done"]
    /\ UNCHANGED <<hpc, muIsRecording, muArecordCmd, cmd, pipeOf>>

\* arecord exits, after SIGTERM or on its own
MuCaptureExits(c) ==
    /\ cmd[c] \in {"running", "signalled"}
    /\ cmd' = [cmd EXCEPT ![c] = "exited"]
    /\ UNCHANGED <<hpc, muIsRecording, muIsProcessing, muArecordCmd, rgpc, pipeOf>>

InitMutex ==
    /\ ControllerIdle
    /\ maxWorkers = DefaultMaxWorkers
    /\ EngineIdle
    /\ PipelineIdle
    /\ WavIdle
    /\ ProcIdle
    /\ GlobIdle
    /\ StageIdle
    /\ RestIdle
    /\ VariantIdle
    /\ MutexIdle

notMutexVars == <<engVars, ctlVars, pipeVars, wavVars, procVars, globVars, stageVars, restVars,
                  variantVars>>

NextMutex ==
    \/ MuToggle /\ UNCHANGED notMutexVars
    \/ MuStop /\ UNCHANGED notMutexVars
    \/ MuStart /\ UNCHANGED notMutexVars
    \/ (\E g \in Cycles : RgPipe(g)) /\ UNCHANGED notMutexVars
    \/ (\E g \in Cycles : RgStart(g)) /\ UNCHANGED notMutexVars
    \/ (\E g \in Cycles : RgSet(g)) /\ UNCHANGED notMutexVars
    \/ (\E g \in Cycles : RgRead(g)) /\ UNCHANGED notMutexVars
    \/ (\E g \in Cycles : RgWait(g)) /\ UNCHANGED notMutexVars
    \/ (\E g \in Cycles : RgProcessed(g)) /\ UNCHANGED notMutexVars
    \/ (\E c \in Cycles : MuCaptureExits(c)) /\ UNCHANGED notMutexVars

SpecMutex == InitMutex /\ [][NextMutex]_vars

\* C37: in the mutex-based controller at most one capture subprocess is
\* running at any time, for every interleaving of the toggle signals with the
\* recording goroutine, which sets isRecording after it started the capture.
C37_OneCapture == Cardinality(Capturing) <= 1

\* =====================================================================
\* The engine of main.go next to the engine of src/unnamed/part_000, both
\* given the same outcome for every (segment, model) call.
Models == {PrimaryModel, FallbackModel}

OutcomeKinds == {"text", "empty", "error"}

\* the answer of the API for segment idx sent to model m under an outcome
ResponseOf(idx, m, kind) ==
    IF kind = "error" THEN [fail |-> TRUE, text |-> <<>>]
    ELSE IF kind = "empty" THEN [fail |-> FALSE, text |-> <<>>]
    ELSE [fail |-> FALSE, text |-> <<" ">> \o Words(idx, m) \o <<"\n">>]

\* what the call for (idx, m) returns in main.go
OutcomeResult(idx, m) == transcribeSegmentFile(ResponseOf(idx, m, outcome[idx][m]))

\* the engine of main.go, its calls returning what outcome says
VariantReturn1(i) ==
    /\ Return1(i)
    /\ text'[i] = OutcomeResult(i, model[i]).text
    /\ err'[i] = OutcomeResult(i, model[i]).err

VariantReturn2(i) ==
    /\ Return2(i)
    /\ text'[i] = OutcomeResult(i, calls[i][2]).text
    /\ err'[i] = OutcomeResult(i, calls[i][2]).err

\* part_000: transcribeWithModel, after GenerateContent has returned resp
transcribeWithModel(resp) ==
    IF resp.fail THEN [text |-> <<>>, err |-> "error"]
    ELSE IF resp.text = <<>> THEN [text |-> <<>>, err |-> "error"]
    ELSE [text |-> TrimSpace(resp.text), err |-> "nil"]

\* part_000: the locals primaryModel and fallbackModel of transcribeSegmentSmart
\* with useLoadBalancing
SmartPrimary(idx) == IF idx % 2 = 0 THEN PrimaryModel ELSE FallbackModel
SmartFallback(idx) == IF idx % 2 = 0 THEN FallbackModel ELSE PrimaryModel

\* part_000: transcribeSegmentSmart(nil, idx, true, segmentFile): its result
\* and the models it called
transcribeSegmentSmart(idx) ==
    LET r1 == transcribeWithModel(ResponseOf(idx, SmartPrimary(idx), outcome[idx][SmartPrimary(idx)]))
        r2 == transcribeWithModel(ResponseOf(idx, SmartFallback(idx), outcome[idx][SmartFallback(idx)]))
    IN  IF r1.err = "nil" /\ r1.text # <<>>
        THEN [text |-> r1.text, err |-> "nil", calls |-> <<SmartPrimary(idx)>>]
        ELSE IF r2.err # "nil"
        THEN [text |-> <<>>, err |-> "error", calls |-> <<SmartPrimary(idx), SmartFallback(idx)>>]
        ELSE [text |-> r2.text, err |-> "nil", calls |-> <<SmartPrimary(idx), SmartFallback(idx)>>]

\* part_000: the results map of transcribeSegmentsParallel after the range loop
SmartResults ==
    [i \in {j \in Units : transcribeSegmentSmart(j).err = "nil" /\ transcribeSegmentSmart(j).text # <<>>}
        |-> transcribeSegmentSmart(i).text]

\* part_000: the text transcribeSegmentsParallel returns
SmartTranscript ==
    LET parts == CombineInOrder(nsegs, SmartResults)
    IN  IF Len(parts) > 0 THEN Join(parts, <<" ">>) ELSE <<>>

InitVariants ==
    /\ ControllerIdle
    /\ PipelineIdle
    /\ WavIdle
    /\ ProcIdle
    /\ GlobIdle
    /\ StageIdle
    /\ RestIdle
    /\ MutexIdle
    /\ maxWorkers \in 1 .. MaxWorkersBound
    /\ \E n \in 0 .. MaxPipelineSegs :
         /\ EngineStart(n)
         /\ outcome \in [0 .. (n - 1) -> [Models -> OutcomeKinds]]

notVariantVars == <<ctlVars, pipeVars, wavVars, procVars, globVars, stageVars, restVars, mutexVars>>

NextVariants ==
    \/ (\E i \in Units : Acquire(i)) /\ UNCHANGED <<outcome, notVariantVars>>
    \/ (\E i \in Units : VariantReturn1(i)) /\ UNCHANGED <<outcome, notVariantVars>>
    \/ (\E i \in Units : VariantReturn2(i)) /\ UNCHANGED <<outcome, notVariantVars>>
    \/ (\E i \in Units : Send(i)) /\ UNCHANGED <<outcome, notVariantVars>>
    \/ (\E i \in Units : Release(i)) /\ UNCHANGED <<outcome, notVariantVars>>
    \/ (\E i \in Units : WgDone(i)) /\ UNCHANGED <<outcome, notVariantVars>>
    \/ CloseResults /\ UNCHANGED <<outcome, notVariantVars>>
    \/ Collect /\ UNCHANGED <<outcome, notVariantVars>>
    \/ Combine /\ UNCHANGED <<outcome, notVariantVars>>

SpecVariants == InitVariants /\ [][NextVariants]_vars

\* C38: the two engine variants are equivalent: for every N and every
\* assignment of outcomes to the (segment, model) calls, the engine of
\* main.go has issued, when it returns, the sequence of model calls per
\* segment that transcribeSegmentSmart issues, and returns the same text.
C38_VariantsEquivalent ==
    epc = "done" =>
        /\ \A i \in Units : calls[i] = transcribeSegmentSmart(i).calls
        /\ combined = SmartTranscript

====
